---- MODULE Spec2Model ----
(***************************************************************************)
(* A model of the JackTrack golf-ball tracker: the round store             *)
(* (DatabaseService), the session coordinator (GameProvider), the          *)
(* location tracker (LocationService) and the ball registry (BLEService).  *)
(*                                                                         *)
(* Conventions.  An optional value ("T | null") is a sequence of length    *)
(* at most one: <<>> is null, <<v>> is v.  A nullable SQL integer is -1    *)
(* when NULL.  Date.now() is the variable `now`; one unit of `now` is one  *)
(* second (1000 ms), and two reads in the same unit return the same value. *)
(* Every awaited call is its own step: the code before the first await of  *)
(* a handler runs in the step that calls it, and each resumption is a      *)
(* later step, so that other handlers interleave exactly at the awaits.    *)
(***************************************************************************)
EXTENDS Integers, Sequences, FiniteSets, TLC

\* ---------------------------------------------------------------- bounds
MaxGameTime == 1
MaxCalls == 2
MaxHole == 2
\* Coordinator calls (startRound, recordScore, endRound) per behaviour, and
\* storage statements that fail per behaviour.
MaxOps == 4
MaxFailures == 1
\* The location tracker: the clock, startLocationTracking calls in flight,
\* live timers (and live sensor subscriptions), registered listeners.
MaxLocTime == 3
MaxLocCalls == 2
MaxLocHandles == 2
MaxListeners == 2
\* The ball registry: the clock, pairNewBall calls in flight, startScanning
\* (and initialize) calls in flight, pending timers, tracked balls, and the
\* listeners registered with the registry in its own specification.
MaxBleTime == 1
MaxPairCalls == 1
MaxScanCalls == 1
MaxBleTimers == 4
MaxBalls == 3
MaxBallListeners == 1
MaxClosureCalls == 4
\* Calls made to the ball registry in one behaviour.
MaxBleOps == 3
\* Balls in the snapshot the coordinator holds when it measures.
MaxSnapshot == 2

\* ------------------------------------------------------------- constants
CourseIds == {"pebble-beach-golf"}
StartGameError == "Failed to start new game. Please try again."
EndGameError == "Failed to end game. Please try again."
SaveScoreError == "Failed to save score. Please try again."
\* setInterval(..., 2000) of simulateLocation, in seconds.
SimulationPeriod == 2
\* BLEService's timers, in seconds: setInterval(..., 5000) of
\* simulateGolfBalls, setTimeout(..., 1000) before simulateDeviceDiscovery,
\* the 3000 ms settle delay of pairNewBall, the 30000 ms scan timeout.
TelemetryPeriod == 5
DiscoveryDelay == 1
SettleDelay == 3
ScanTimeout == 30
InitError == "Failed to initialize app services. Please try restarting the app."

Holes == 1..MaxHole
\* The (par, strokes, putts) arguments tried for recordScore.
ScoreInputs ==
  {[par |-> 4, strokes |-> 1, putts |-> 0],
   [par |-> 3, strokes |-> 2, putts |-> 1]}
\* Arguments of saveScore that the scorecard screen never passes (it refuses
\* a stroke count below 1) but the coordinator's saveScore accepts.
UncheckedScoreInputs ==
  {[par |-> 3, strokes |-> 0, putts |-> 1]}

VARIABLES
  now,          \* Date.now()
  db,           \* DatabaseService.db is non-null
  games,        \* table games: id -> row
  game_scores,  \* table game_scores: <<game id, hole number>> -> row
  currentGame,  \* GameProvider state currentGame (optional Game)
  error,        \* GameProvider state error (optional message)
  calls,        \* the coordinator calls in flight, one per slot
  opCount,      \* coordinator calls made so far
  failCount     \* storage statements that failed so far

gameVars == <<db, games, game_scores, currentGame, error, calls, opCount,
              failCount>>

\* ------------------------------------------------------------ utilities
Some(x) == <<x>>
None == <<>>
IsSome(o) == Len(o) > 0
Get(o) == o[1]

Max(S) == CHOOSE x \in S : \A y \in S : y <= x
Min(S) == CHOOSE x \in S : \A y \in S : x <= y

RECURSIVE SumOver(_, _)
SumOver(S, f) ==
  IF S = {} THEN 0
  ELSE LET x == CHOOSE y \in S : TRUE IN f[x] + SumOver(S \ {x}, f)

\* The elements of a finite set of integers in increasing order.
RECURSIVE SortedSeq(_)
SortedSeq(S) ==
  IF S = {} THEN <<>> ELSE LET m == Min(S) IN <<m>> \o SortedSeq(S \ {m})

\* ================================================================ clock
\* Time passes (the round store and the coordinator hold no timers).
Tick ==
  /\ now < MaxGameTime
  /\ now' = now + 1

\* ====================================================== DatabaseService
\* INSERT INTO games (id, course_id, course_name, start_time, is_active)
\* VALUES (?, ?, ?, ?, 1); total_strokes and total_par DEFAULT 0, end_time NULL.
NewGameRow(courseId, startTime) ==
  [course_id |-> courseId, start_time |-> startTime, end_time |-> -1,
   total_strokes |-> 0, total_par |-> 0, is_active |-> 1]

\* id TEXT PRIMARY KEY: a plain INSERT of an existing id fails.
InsertGameOk(tbl, gameId) == gameId \notin DOMAIN tbl

InsertGame(tbl, gameId, courseId, startTime) ==
  tbl @@ (gameId :> NewGameRow(courseId, startTime))

\* INSERT OR REPLACE INTO game_scores: the id is score-<game>-<hole>, so the
\* row of the same game and hole is replaced.  `putts || null` stores NULL
\* for undefined and for 0.
UpsertScore(tbl, gameId, hole, par, strokes, putts) ==
  LET key == <<gameId, hole>>
      row == [par |-> par, strokes |-> strokes,
              putts |-> IF putts = 0 THEN -1 ELSE putts]
  IN IF key \in DOMAIN tbl THEN [tbl EXCEPT ![key] = row]
     ELSE tbl @@ (key :> row)

ScoreKeys(tbl, gameId) == {k \in DOMAIN tbl : k[1] = gameId}

\* SELECT SUM(strokes), SUM(par) FROM game_scores WHERE game_id = ?
\* followed by `|| 0` on each sum (SUM over no rows is NULL).
SumTotals(tbl, gameId) ==
  LET ks == ScoreKeys(tbl, gameId)
  IN [total_strokes |-> SumOver(ks, [k \in ks |-> tbl[k].strokes]),
      total_par |-> SumOver(ks, [k \in ks |-> tbl[k].par])]

\* UPDATE games SET total_strokes = ?, total_par = ? WHERE id = ?
UpdateTotals(tbl, gameId, totals) ==
  IF gameId \in DOMAIN tbl
  THEN [tbl EXCEPT ![gameId].total_strokes = totals.total_strokes,
                   ![gameId].total_par = totals.total_par]
  ELSE tbl

\* UPDATE games SET end_time = ?, is_active = 0 WHERE id = ?
CloseGame(tbl, gameId, endTime) ==
  IF gameId \in DOMAIN tbl
  THEN [tbl EXCEPT ![gameId].end_time = endTime, ![gameId].is_active = 0]
  ELSE tbl

ActiveIds(tbl) == {g \in DOMAIN tbl : tbl[g].is_active = 1}

\* SELECT * FROM games WHERE is_active = 1 ORDER BY start_time DESC LIMIT 1
\* (the row with its id, optional).
SelectActiveGame(tbl) ==
  IF ActiveIds(tbl) = {} THEN None
  ELSE LET g == CHOOSE a \in ActiveIds(tbl) :
                  \A b \in ActiveIds(tbl) : tbl[b].start_time <= tbl[a].start_time
       IN Some([id |-> g, row |-> tbl[g]])

\* SELECT * FROM game_scores WHERE game_id = ? ORDER BY hole_number, mapped
\* to GameScore objects.
SelectScores(tbl, gameId) ==
  LET hs == SortedSeq({k[2] : k \in ScoreKeys(tbl, gameId)})
  IN [i \in 1..Len(hs) |->
        [holeNumber |-> hs[i], par |-> tbl[<<gameId, hs[i]>>].par,
         strokes |-> tbl[<<gameId, hs[i]>>].strokes,
         putts |-> tbl[<<gameId, hs[i]>>].putts]]

\* The Game object getActiveGame() builds from the games row it read first
\* and the scores it read second.
MakeGame(g, scores) ==
  [id |-> g.id, courseId |-> g.row.course_id, startTime |-> g.row.start_time,
   endTime |-> g.row.end_time, totalStrokes |-> g.row.total_strokes,
   totalPar |-> g.row.total_par, isActive |-> (g.row.is_active = 1),
   scores |-> scores]

\* DatabaseService.initialize(): openDatabaseAsync, createTables,
\* seedInitialData.  "ok" and "setupFails" leave db set; every outcome but
\* "ok" throws.
DbInitOutcomes == {"ok", "openFails", "setupFails"}
DbAfterInit(outcome) == IF outcome = "openFails" THEN db ELSE TRUE

\* A storage statement succeeds or fails (PersistenceFailure).
IoOutcome(ioOk) ==
  /\ ioOk \/ failCount < MaxFailures
  /\ failCount' = IF ioOk THEN failCount ELSE failCount + 1
  /\ UNCHANGED opCount

\* ========================================================= GameProvider
Slots == 1..MaxCalls
IdleCall == [op |-> "none", pc |-> "idle", gameId |-> -1, courseId |-> "",
             hole |-> 0, par |-> 0, strokes |-> 0, putts |-> -1,
             startTime |-> -1, read |-> None]
Free(s) == calls[s].pc = "idle"
\* A new call takes the lowest free slot (the slots are interchangeable).
Fresh(s) == Free(s) /\ \A t \in Slots : t < s => ~Free(t)
NoCallInFlight == \A s \in Slots : Free(s)

\* startNewGame(courseId, courseName) up to its first await:
\* setError(null), then dbService.startNewGame, which throws at once when
\* the database is not open and otherwise fixes the id (game-<Date.now()>)
\* and the start time and issues the INSERT.
StartNewGame(s, courseId) ==
  /\ Fresh(s)
  /\ opCount < MaxOps
  /\ opCount' = opCount + 1
  /\ UNCHANGED failCount
  /\ IF ~db
     THEN /\ error' = Some(StartGameError)
          /\ UNCHANGED calls
     ELSE /\ error' = None
          /\ calls' = [calls EXCEPT ![s] =
               [IdleCall EXCEPT !.op = "start", !.pc = "insert",
                                !.gameId = now, !.courseId = courseId,
                                !.startTime = now]]
  /\ UNCHANGED <<db, games, game_scores, currentGame>>

\* The INSERT of startNewGame completes: the row is stored and the call goes
\* on to getActiveGame(), or the statement fails and the catch block of
\* GameProvider.startNewGame sets the error.
StartInsert(s, ioOk) ==
  /\ IoOutcome(ioOk)
  /\ calls[s].op = "start" /\ calls[s].pc = "insert"
  /\ IF ioOk /\ InsertGameOk(games, calls[s].gameId)
     THEN /\ games' = InsertGame(games, calls[s].gameId, calls[s].courseId,
                                 calls[s].startTime)
          /\ calls' = [calls EXCEPT ![s].pc = "readGame"]
          /\ UNCHANGED error
     ELSE /\ error' = Some(StartGameError)
          /\ calls' = [calls EXCEPT ![s] = IdleCall]
          /\ UNCHANGED games
  /\ UNCHANGED <<db, game_scores, currentGame>>

\* getActiveGame(), first query: the active games row.  A failure or no row
\* makes getActiveGame return null, which the caller stores.
ReadGame(s, ioOk) ==
  /\ IoOutcome(ioOk)
  /\ calls[s].pc = "readGame"
  /\ LET g == IF ioOk /\ db THEN SelectActiveGame(games) ELSE None
     IN IF IsSome(g)
        THEN /\ calls' = [calls EXCEPT ![s].pc = "readScores", ![s].read = g]
             /\ UNCHANGED currentGame
        ELSE /\ calls' = [calls EXCEPT ![s] = IdleCall]
             /\ currentGame' = None
  /\ UNCHANGED <<db, games, game_scores, error>>

\* getActiveGame(), second query: the scores of the row read before; the
\* caller stores the Game (or null when the query fails).
ReadScores(s, ioOk) ==
  /\ IoOutcome(ioOk)
  /\ calls[s].pc = "readScores"
  /\ currentGame' =
       IF ioOk
       THEN Some(MakeGame(Get(calls[s].read),
                          SelectScores(game_scores, Get(calls[s].read).id)))
       ELSE None
  /\ calls' = [calls EXCEPT ![s] = IdleCall]
  /\ UNCHANGED <<db, games, game_scores, error>>

\* endCurrentGame() up to its first await: nothing without a current game;
\* otherwise setError(null) and dbService.endGame, which returns at once
\* when the database is not open (setCurrentGame(null) follows).
EndCurrentGame(s) ==
  /\ Fresh(s)
  /\ opCount < MaxOps
  /\ opCount' = opCount + 1
  /\ UNCHANGED failCount
  /\ IsSome(currentGame)
  /\ error' = None
  /\ IF ~db
     THEN /\ currentGame' = None
          /\ UNCHANGED calls
     ELSE /\ calls' = [calls EXCEPT ![s] =
               [IdleCall EXCEPT !.op = "end", !.pc = "close",
                                !.gameId = Get(currentGame).id,
                                !.startTime = now]]
          /\ UNCHANGED currentGame
  /\ UNCHANGED <<db, games, game_scores>>

\* The UPDATE of endGame completes.  endGame catches a failure itself, so
\* the coordinator clears its current game either way.
EndClose(s, ioOk) ==
  /\ IoOutcome(ioOk)
  /\ calls[s].op = "end" /\ calls[s].pc = "close"
  /\ games' = IF ioOk THEN CloseGame(games, calls[s].gameId, calls[s].startTime)
              ELSE games
  /\ currentGame' = None
  /\ calls' = [calls EXCEPT ![s] = IdleCall]
  /\ UNCHANGED <<db, game_scores, error>>

\* saveScore without the check of the current game: reading the id of null
\* throws, and the catch block sets the error.
SaveScoreUnchecked(s, hole, par, strokes, putts) ==
  /\ Fresh(s)
  /\ opCount < MaxOps
  /\ opCount' = opCount + 1
  /\ UNCHANGED failCount
  /\ IF IsSome(currentGame)
     THEN /\ error' = None
          /\ calls' = [calls EXCEPT ![s] =
               [IdleCall EXCEPT !.op = "save",
                                !.pc = IF db THEN "upsert" ELSE "readGame",
                                !.gameId = Get(currentGame).id, !.hole = hole,
                                !.par = par, !.strokes = strokes,
                                !.putts = putts]]
     ELSE /\ error' = Some(SaveScoreError)
          /\ calls' = [calls EXCEPT ![s] = [IdleCall EXCEPT !.op = "noRound"]]
  /\ UNCHANGED <<db, games, game_scores, currentGame>>

\* saveScore(holeNumber, par, strokes, putts) up to its first await:
\* without a current game it returns at once (the slot then only records
\* that the call was made: op "noRound"); otherwise setError(null) and
\* dbService.saveScore, which returns at once when the database is not open
\* (the refresh by getActiveGame follows).
SaveScore(s, hole, par, strokes, putts) ==
  /\ Fresh(s)
  /\ opCount < MaxOps
  /\ opCount' = opCount + 1
  /\ UNCHANGED failCount
  /\ IF IsSome(currentGame)
     THEN /\ error' = None
          /\ calls' = [calls EXCEPT ![s] =
               [IdleCall EXCEPT !.op = "save",
                                !.pc = IF db THEN "upsert" ELSE "readGame",
                                !.gameId = Get(currentGame).id, !.hole = hole,
                                !.par = par, !.strokes = strokes,
                                !.putts = putts]]
     ELSE /\ UNCHANGED error
          /\ calls' = [calls EXCEPT ![s] = [IdleCall EXCEPT !.op = "noRound"]]
  /\ UNCHANGED <<db, games, game_scores, currentGame>>

\* INSERT OR REPLACE of saveScore completes; on failure saveScore's catch
\* logs and returns, skipping updateGameTotals.
SaveUpsert(s, ioOk) ==
  /\ IoOutcome(ioOk)
  /\ calls[s].op = "save" /\ calls[s].pc = "upsert"
  /\ IF ioOk
     THEN /\ game_scores' = UpsertScore(game_scores, calls[s].gameId,
                                        calls[s].hole, calls[s].par,
                                        calls[s].strokes, calls[s].putts)
          /\ calls' = [calls EXCEPT ![s].pc = "sum"]
     ELSE /\ calls' = [calls EXCEPT ![s].pc = "readGame"]
          /\ UNCHANGED game_scores
  /\ UNCHANGED <<db, games, currentGame, error>>

\* updateGameTotals, the SELECT SUM; a failure is caught and logged.
SaveSum(s, ioOk) ==
  /\ IoOutcome(ioOk)
  /\ calls[s].op = "save" /\ calls[s].pc = "sum"
  /\ IF ioOk
     THEN LET t == SumTotals(game_scores, calls[s].gameId)
          IN calls' = [calls EXCEPT ![s].pc = "update",
                                    ![s].strokes = t.total_strokes,
                                    ![s].par = t.total_par]
     ELSE calls' = [calls EXCEPT ![s].pc = "readGame"]
  /\ UNCHANGED <<db, games, game_scores, currentGame, error>>

\* updateGameTotals, the UPDATE with the sums read before; a failure is
\* caught and logged.  The refresh by getActiveGame follows.
SaveUpdate(s, ioOk) ==
  /\ IoOutcome(ioOk)
  /\ calls[s].op = "save" /\ calls[s].pc = "update"
  /\ games' = IF ioOk
              THEN UpdateTotals(games, calls[s].gameId,
                     [total_strokes |-> calls[s].strokes,
                      total_par |-> calls[s].par])
              ELSE games
  /\ calls' = [calls EXCEPT ![s].pc = "readGame"]
  /\ UNCHANGED <<db, game_scores, currentGame, error>>

\* DatabaseService.initialize() as a whole (its awaits touch no state of
\* the model but db; once db is set a further call changes nothing).
DbInitialize(outcome) ==
  /\ ~db
  /\ db' = DbAfterInit(outcome)
  /\ UNCHANGED <<games, game_scores, currentGame, error, calls, opCount,
                 failCount>>

\* ================================================== listener registries
\* LocationService.locationCallbacks and BLEService.ballUpdateCallbacks are
\* arrays of callback functions; a callback function is named by a number.
Range(f) == {f[i] : i \in DOMAIN f}
Count(arr, cb) == Cardinality({i \in DOMAIN arr : arr[i] = cb})
RemoveAt(arr, i) == SubSeq(arr, 1, i - 1) \o SubSeq(arr, i + 1, Len(arr))
\* indexOf(callback), 1-based; 0 when absent.
IndexOf(arr, cb) ==
  IF cb \in Range(arr) THEN Min({i \in DOMAIN arr : arr[i] = cb}) ELSE 0

\* onLocationUpdate / onBallUpdates: push(callback).
Register(arr, cb) == Append(arr, cb)

\* Unsubscribe, were splice never to remove the first element of the array.
UnsubscribeDropsNothingAtHead(arr, cb) ==
  IF IndexOf(arr, cb) > 1 THEN RemoveAt(arr, IndexOf(arr, cb)) ELSE arr

\* The closure onLocationUpdate / onBallUpdates returns:
\* index = indexOf(callback); if (index > -1) splice(index, 1).
Unsubscribe(arr, cb) ==
  IF IndexOf(arr, cb) > 0 THEN RemoveAt(arr, IndexOf(arr, cb)) ELSE arr

\* callbacks.forEach(callback => callback(value)) where the callbacks in U
\* call their own unsubscribe closure when invoked.  forEach fixes the
\* number of indices to visit when it starts (len0), visits index k only if
\* the array still has it, and reads the element there at that moment.
\* The result is the array afterwards and the callbacks invoked, in order.
RECURSIVE ForEachFrom(_, _, _, _, _)
ForEachFrom(arr, k, len0, U, invoked) ==
  IF k > len0 THEN [arr |-> arr, invoked |-> invoked]
  ELSE IF k > Len(arr) THEN ForEachFrom(arr, k + 1, len0, U, invoked)
  ELSE ForEachFrom(IF arr[k] \in U THEN Unsubscribe(arr, arr[k]) ELSE arr,
                   k + 1, len0, U, Append(invoked, arr[k]))

ForEach(arr, U) == ForEachFrom(arr, 1, Len(arr), U, <<>>)

\* The callbacks that called their unsubscribe closure in a pass over arr
\* and were registered exactly once when the pass started.
Retiring(arr, U) ==
  {c \in Range(ForEach(arr, U).invoked) : c \in U /\ Count(arr, c) = 1}

\* ====================================================== LocationService
\* Coordinates are offsets from the reference coordinate (36.5674,
\* -121.9491) in units of 0.00001 degree.
VARIABLES
  platformWeb,           \* Platform.OS === 'web'
  locationSubscription,  \* optional handle of the sensor subscription
  simulationInterval,    \* optional handle of the simulation timer
  currentLocation,       \* optional LocationObject
  locationCallbacks,     \* array of callbacks
  locTimers,             \* live setInterval timers: handle -> time to next run
  locWatchers,           \* live sensor subscriptions (handles)
  locCalls,              \* startLocationTracking calls in flight: slot -> pc
  locInvoked,            \* the callbacks this step invoked, in order
  locRetired,            \* callbacks that unsubscribed inside their callback
  locStopped             \* stop() returned and start() was not called since

locVars == <<platformWeb, locationSubscription, simulationInterval,
             currentLocation, locationCallbacks, locTimers, locWatchers,
             locCalls, locInvoked, locRetired, locStopped>>

\* A step of another part of the program: the tracker invokes nothing.
LocQuiet ==
  /\ locInvoked' = <<>>
  /\ UNCHANGED <<platformWeb, locationSubscription, simulationInterval,
                 currentLocation, locationCallbacks, locTimers, locWatchers,
                 locCalls, locRetired, locStopped>>

LocSlots == 1..MaxLocCalls
LocHandles == 1..MaxLocHandles
Callbacks == 1..MaxListeners
\* (Math.random() - 0.5) * 0.0001 lies in [-0.00005, 0.00005); the pairs
\* <<latitude offset, longitude offset>> tried.
Jitters == {<<-5, 4>>, <<4, -5>>}
SensorCoords == {10}

LocFresh(s) ==
  /\ locCalls[s] = "idle"
  /\ \A t \in LocSlots : t < s => locCalls[t] # "idle"

\* The smallest handle in use by no live timer or subscription.
FreshHandle(used) == Min(LocHandles \ used)

\* The body of the sensor callback and of the simulation's emissions:
\* this.currentLocation = location; locationCallbacks.forEach(...).
Emit(location, U) ==
  /\ currentLocation' = Some(location)
  /\ locationCallbacks' = ForEach(locationCallbacks, U).arr
  /\ locInvoked' = ForEach(locationCallbacks, U).invoked
  /\ locRetired' = locRetired \cup Retiring(locationCallbacks, U)

\* simulateLocation(): emit the base location, then setInterval(..., 2000),
\* whose handle replaces the one simulationInterval held.
SimulateLocation(U) ==
  /\ Cardinality(DOMAIN locTimers) < MaxLocHandles
  /\ Emit([latitude |-> 0, longitude |-> 0, timestamp |-> now], U)
  /\ LET h == FreshHandle(DOMAIN locTimers)
     IN /\ locTimers' = locTimers @@ (h :> SimulationPeriod)
        /\ simulationInterval' = Some(h)

\* startLocationTracking() up to its first await (requestPermissions()).
StartLocationTracking(s) ==
  /\ LocFresh(s)
  /\ locCalls' = [locCalls EXCEPT ![s] = "perm"]
  /\ locStopped' = FALSE
  /\ locInvoked' = <<>>
  /\ UNCHANGED <<platformWeb, locationSubscription, simulationInterval,
                 currentLocation, locationCallbacks, locTimers, locWatchers,
                 locRetired>>

\* requestPermissions() returns.  On the web it returns true and
\* simulateLocation() runs; elsewhere a refusal makes startLocationTracking
\* throw, and otherwise watchPositionAsync is awaited.
PermissionResult(s, granted, U) ==
  /\ locCalls[s] = "perm"
  /\ platformWeb => granted
  /\ IF platformWeb
     THEN /\ SimulateLocation(U)
          /\ locCalls' = [locCalls EXCEPT ![s] = "idle"]
          /\ UNCHANGED <<locationSubscription, locWatchers>>
     ELSE /\ locCalls' = [locCalls EXCEPT ![s] =
                            IF granted THEN "watch" ELSE "idle"]
          /\ locInvoked' = <<>>
          /\ UNCHANGED <<locationSubscription, simulationInterval,
                         currentLocation, locationCallbacks, locTimers,
                         locWatchers, locRetired>>
  /\ UNCHANGED <<platformWeb, locStopped>>

\* watchPositionAsync returns: the subscription is stored, or the catch
\* block falls back to simulateLocation().
WatchResult(s, ok, U) ==
  /\ locCalls[s] = "watch"
  /\ IF ok
     THEN /\ Cardinality(locWatchers) < MaxLocHandles
          /\ LET h == FreshHandle(locWatchers)
             IN /\ locWatchers' = locWatchers \cup {h}
                /\ locationSubscription' = Some(h)
          /\ locInvoked' = <<>>
          /\ UNCHANGED <<simulationInterval, currentLocation,
                         locationCallbacks, locTimers, locRetired>>
     ELSE /\ SimulateLocation(U)
          /\ UNCHANGED <<locationSubscription, locWatchers>>
  /\ locCalls' = [locCalls EXCEPT ![s] = "idle"]
  /\ UNCHANGED <<platformWeb, locStopped>>

\* The sensor reports a position to a live subscription's callback.
SensorCallback(h, coord, U) ==
  /\ h \in locWatchers
  /\ Emit([latitude |-> coord, longitude |-> coord, timestamp |-> now], U)
  /\ UNCHANGED <<platformWeb, locationSubscription, simulationInterval,
                 locTimers, locWatchers, locCalls, locStopped>>

\* A simulation timer runs: the base location jittered, stamped Date.now().
SimulationTick(h, jitter, U) ==
  /\ h \in DOMAIN locTimers
  /\ locTimers[h] = 0
  /\ Emit([latitude |-> 0 + jitter[1], longitude |-> 0 + jitter[2],
           timestamp |-> now], U)
  /\ locTimers' = [locTimers EXCEPT ![h] = SimulationPeriod]
  /\ UNCHANGED <<platformWeb, locationSubscription, simulationInterval,
                 locWatchers, locCalls, locStopped>>

\* f without the key k.
Without(f, k) == [x \in DOMAIN f \ {k} |-> f[x]]

\* stopLocationTracking().
StopLocationTracking ==
  /\ locWatchers' = IF IsSome(locationSubscription)
                    THEN locWatchers \ {Get(locationSubscription)}
                    ELSE locWatchers
  /\ locationSubscription' = None
  /\ locTimers' = IF IsSome(simulationInterval)
                  THEN Without(locTimers, Get(simulationInterval))
                  ELSE locTimers
  /\ simulationInterval' = None
  /\ locStopped' = TRUE
  /\ locInvoked' = <<>>
  /\ UNCHANGED <<platformWeb, currentLocation, locationCallbacks, locCalls,
                 locRetired>>

\* onLocationUpdate(callback).
OnLocationUpdate(cb) ==
  /\ Len(locationCallbacks) < MaxListeners
  /\ locationCallbacks' = Register(locationCallbacks, cb)
  /\ locRetired' = locRetired \ {cb}
  /\ locInvoked' = <<>>
  /\ UNCHANGED <<platformWeb, locationSubscription, simulationInterval,
                 currentLocation, locTimers, locWatchers, locCalls, locStopped>>

\* A closure returned by onLocationUpdate(cb) is called outside a dispatch.
LocationUnsubscribe(cb) ==
  /\ locationCallbacks' = Unsubscribe(locationCallbacks, cb)
  /\ locInvoked' = <<>>
  /\ UNCHANGED <<platformWeb, locationSubscription, simulationInterval,
                 currentLocation, locTimers, locWatchers, locCalls, locRetired,
                 locStopped>>

\* One second passes: no timer is due, and every timer comes a second closer.
LocTimePasses ==
  /\ now < MaxLocTime
  /\ \A h \in DOMAIN locTimers : locTimers[h] > 0
  /\ now' = now + 1
  /\ locTimers' = [h \in DOMAIN locTimers |-> locTimers[h] - 1]
  /\ locInvoked' = <<>>
  /\ UNCHANGED <<platformWeb, locationSubscription, simulationInterval,
                 currentLocation, locationCallbacks, locWatchers, locCalls,
                 locRetired, locStopped>>

InitLocation ==
  /\ platformWeb \in BOOLEAN
  /\ locationSubscription = None
  /\ simulationInterval = None
  /\ currentLocation = None
  /\ locationCallbacks = <<>>
  /\ locTimers = <<>>
  /\ locWatchers = {}
  /\ locCalls = [s \in LocSlots |-> "idle"]
  /\ locInvoked = <<>>
  /\ locRetired = {}
  /\ locStopped = FALSE

\* =========================================================== BLEService
\* The registry is one record, so that a method that calls other methods is
\* the composition of their effects.  Maps are sequences in insertion
\* order (a JavaScript Map iterates in insertion order).  A ball keeps its
\* id, name, deviceId and lastSeen; its position, battery level and rssi are
\* random or copied values that no operation reads, and are left out.
\*
\* Timers of the registry are kept in `timers` in the order they were set
\* (a setInterval timer is set again each time it runs).  They are ordered
\* by their delays rather than timed: a timer can run unless a timer set
\* before it with the same or a shorter delay is still pending, which must
\* run first.  Date.now() (`now`) advances on its own in this part.
VARIABLES ble

BallSlots == 1..MaxPairCalls
ScanHandles == 1..MaxBleTimers
BallNames == {"X", "Y"}
RealDevices == {<<"real", 1>>, <<"real", 2>>}
\* simulateDeviceDiscovery's list, in its order.
SimulatedDevices ==
  <<(<<"device", 1>>), (<<"device", 2>>), (<<"device", 3>>), (<<"device", 4>>)>>
\* An id no ball or device has.
UnknownId == <<"unknown", 0>>

Delay(kind) ==
  CASE kind = "telemetry" -> TelemetryPeriod
    [] kind = "discovery" -> DiscoveryDelay
    [] kind = "settle" -> SettleDelay
    [] kind = "scan" -> ScanTimeout

\* `selected` is the device chosen on the balls screen when the call is
\* made by its pairSelectedDevice, and UnknownId otherwise.
IdlePair == [pc |-> "idle", name |-> "", target |-> UnknownId,
             selected |-> UnknownId]

\* The state after `new BLEService()` has not run yet: see Constructed.
EmptyRegistry(hasManager) ==
  [manager |-> hasManager, connectedDevices |-> {}, golfBalls |-> <<>>,
   ballUpdateCallbacks |-> <<>>, isScanning |-> FALSE, scanTimeout |-> None,
   discoveredDevices |-> <<>>,
   \* the environment: the adapter's scan, the timers, the calls in flight
   adapterScanning |-> FALSE, timers |-> <<>>,
   pairCalls |-> [p \in BallSlots |-> IdlePair],
   pendingScans |-> 0, pendingInits |-> 0, connecting |-> {},
   \* what the last step did: callbacks invoked, timer run, pair returned,
   \* removeBall(id) returned (its id), the method called from outside,
   \* connectToDevice returned (its deviceId and result)
   invoked |-> <<>>, fired |-> None, returned |-> None, removed |-> None,
   api |-> "", connected |-> None,
   \* the unsubscribe closure the last step called from outside a dispatch
   unsubscribed |-> None,
   \* history: callbacks that unsubscribed inside their callback;
   \* stopScanning() returned and no scan was started since; destroy()
   \* returned and initialize() was not called since; the way the last
   \* startScanning() fell back from the adapter; calls made so far
   retired |-> {}, scanStopped |-> FALSE, destroyed |-> FALSE,
   fallback |-> "none", ops |-> 0,
   \* the unsubscribe closures onBallUpdates has returned, in the order of
   \* the calls, each with the callback it captured, and those of them that
   \* were called (outside a dispatch) so far
   closures |-> <<>>, spent |-> {}]

\* Every step starts with nothing invoked, run or returned.
Quiet(b) ==
  [b EXCEPT !.invoked = <<>>, !.fired = None, !.returned = None,
            !.removed = None, !.api = "", !.connected = None,
            !.unsubscribed = None]

Ids(seq) == {seq[i].id : i \in DOMAIN seq}
\* Map.set(ball.id, ball)
MapSet(seq, ball) ==
  IF ball.id \in Ids(seq)
  THEN [i \in DOMAIN seq |-> IF seq[i].id = ball.id THEN ball ELSE seq[i]]
  ELSE Append(seq, ball)
\* Map.delete(id)
MapDelete(seq, id) ==
  IF id \in Ids(seq)
  THEN RemoveAt(seq, CHOOSE i \in DOMAIN seq : seq[i].id = id)
  ELSE seq
\* discoveredDevices.set(device.id, device), keeping the ids only
AddDevice(seq, id) == IF id \in Range(seq) THEN seq ELSE Append(seq, id)
RECURSIVE AddDevices(_, _)
AddDevices(seq, ids) ==
  IF ids = <<>> THEN seq ELSE AddDevices(AddDevice(seq, Head(ids)), Tail(ids))

NewTimer(kind, ref) == [kind |-> kind, ref |-> ref, stale |-> FALSE]
SetTimer(b, kind, ref) == [b EXCEPT !.timers = Append(@, NewTimer(kind, ref))]
\* clearTimeout, were it to leave the timer pending.
ClearScanTimerKeeps(ts, h) == ts
\* clearTimeout(handle)
ClearScanTimer(ts, h) == SelectSeq(ts, LAMBDA x : ~(x.kind = "scan" /\ x.ref = h))
\* A new timer handle: one no pending scan timer has and scanTimeout does
\* not hold.
FreshScanHandle(b) ==
  Min(ScanHandles \ ({b.timers[i].ref : i \in {j \in DOMAIN b.timers :
                                                 b.timers[j].kind = "scan"}}
                     \cup Range(b.scanTimeout)))
CanFire(ts, i) ==
  \A j \in 1..(i - 1) : Delay(ts[j].kind) > Delay(ts[i].kind)

\* onBallUpdates(callback): the callback is pushed and a new closure that
\* captures it is returned.
Subscribed(b, cb) ==
  [b EXCEPT !.ballUpdateCallbacks = Register(@, cb),
            !.closures = Append(@, cb),
            !.retired = @ \ {cb}]

\* The closure r that onBallUpdates returned is called.
ClosureCalled(b, r) ==
  [b EXCEPT !.ballUpdateCallbacks = Unsubscribe(@, b.closures[r]),
            !.spent = @ \cup {r},
            !.unsubscribed = Some(r)]

\* notifyBallUpdates(), the callbacks in U unsubscribing themselves.
NotifyBallUpdates(b, U) ==
  LET r == ForEach(b.ballUpdateCallbacks, U)
  IN [b EXCEPT !.ballUpdateCallbacks = r.arr,
               !.invoked = @ \o r.invoked,
               !.retired = @ \cup Retiring(b.ballUpdateCallbacks, U)]

SimulatedBall(i, t) ==
  [id |-> <<"sim-ball", i>>,
   name |-> IF i = 1 THEN "Titleist Pro V1" ELSE "Callaway Chrome Soft",
   deviceId |-> None, lastSeen |-> t]

\* simulateGolfBalls()
SimulateGolfBalls(b, t, U) ==
  SetTimer(
    NotifyBallUpdates(
      [b EXCEPT !.golfBalls =
         MapSet(MapSet(@, SimulatedBall(1, t)), SimulatedBall(2, t))], U),
    "telemetry", 0)

\* new BLEService(): initializeBLE() runs to its end inside the constructor
\* (it awaits nothing).  Without a native manager it starts the simulation.
Constructed(hasManager, t) ==
  IF hasManager THEN EmptyRegistry(TRUE)
  ELSE Quiet(SimulateGolfBalls(EmptyRegistry(FALSE), t, {}))

\* updateSimulatedBallPositions, were it to stamp the balls with the time
\* of the registry's construction.
UpdateSimulatedBallPositionsStale(b, t, U) ==
  NotifyBallUpdates(
    [b EXCEPT !.golfBalls =
       [i \in DOMAIN @ |-> [@[i] EXCEPT !.lastSeen = 0]]], U)

\* updateSimulatedBallPositions()
UpdateSimulatedBallPositions(b, t, U) ==
  NotifyBallUpdates(
    [b EXCEPT !.golfBalls =
       [i \in DOMAIN @ |-> [@[i] EXCEPT !.lastSeen = t]]], U)

\* simulateDeviceDiscovery()
SimulateDeviceDiscovery(b) ==
  [b EXCEPT !.discoveredDevices = AddDevices(@, SimulatedDevices)]

\* The start of a scan, were the discovered devices kept.
BeginScanKeepsDevices(b) ==
  LET c == [b EXCEPT !.isScanning = TRUE, !.scanStopped = FALSE,
                     !.fallback = IF b.manager THEN "none" ELSE "absent"]
  IN IF b.manager THEN c ELSE SetTimer(c, "discovery", 0)

\* startScanning() up to its first await, when it is not already scanning:
\* without a manager the simulated discovery is scheduled and the method
\* returns; with one it goes on to await manager.state().
BeginScan(b) ==
  LET c == [b EXCEPT !.isScanning = TRUE, !.discoveredDevices = <<>>,
                     !.scanStopped = FALSE,
                     !.fallback = IF b.manager THEN "none" ELSE "absent"]
  IN IF b.manager THEN c ELSE SetTimer(c, "discovery", 0)

\* startScanning() after manager.state() returned or threw.
ScanOutcomes == {"PoweredOn", "NotPoweredOn", "StateThrows", "ScanThrows"}
ResumeScan(b, outcome) ==
  IF outcome = "PoweredOn"
  THEN LET h == FreshScanHandle(b)
       IN SetTimer([b EXCEPT !.adapterScanning = TRUE,
                             !.scanTimeout = Some(h)], "scan", h)
  ELSE [b EXCEPT !.isScanning = FALSE,
                 !.fallback = IF outcome = "NotPoweredOn" THEN "notPoweredOn"
                              ELSE "scanFails"]

\* stopScanning()
StopScanning(b) ==
  IF ~b.isScanning THEN [b EXCEPT !.scanStopped = TRUE]
  ELSE [b EXCEPT !.isScanning = FALSE,
                 !.timers = IF IsSome(b.scanTimeout)
                            THEN ClearScanTimer(@, Get(b.scanTimeout)) ELSE @,
                 !.scanTimeout = None,
                 !.adapterScanning = IF b.manager THEN FALSE ELSE @,
                 !.scanStopped = TRUE]

\* The tail of pairNewBall once a device is connected: the ball is stored
\* under the device's id and the listeners are notified.
StoreDeviceBall(b, p, t, U) ==
  LET target == b.pairCalls[p].target
      ball == [id |-> target, name |-> b.pairCalls[p].name,
               deviceId |-> Some(target), lastSeen |-> t]
      c == NotifyBallUpdates([b EXCEPT !.golfBalls = MapSet(@, ball)], U)
  IN [c EXCEPT !.pairCalls[p] = IdlePair,
               !.returned = Some([name |-> ball.name, result |-> TRUE,
                                  path |-> "device", id |-> target])]

\* createSimulatedBall(name), as pairNewBall's result.
CreateSimulatedBall(b, p, t, U) ==
  LET ball == [id |-> <<"sim-ball-t", t>>, name |-> b.pairCalls[p].name,
               deviceId |-> None, lastSeen |-> t]
      c == NotifyBallUpdates([b EXCEPT !.golfBalls = MapSet(@, ball)], U)
  IN [c EXCEPT !.pairCalls[p] = IdlePair,
               !.returned = Some([name |-> ball.name, result |-> TRUE,
                                  path |-> "simulated", id |-> ball.id])]

\* A simulateDeviceConnection that finds no device.
SimulateDeviceConnectionNeverFinds(b, id) == FALSE

\* simulateDeviceConnection(deviceId): whether the device is among the
\* discovered ones (it is then recorded as connected).
SimulateDeviceConnection(b, id) == id \in Range(b.discoveredDevices)

\* connectToDevice without a manager, were every device recorded.
SimulatedConnectionRecordsAlways(b, id) ==
  [b EXCEPT !.connectedDevices = @ \cup {id},
            !.connected = Some([id |-> id,
                                result |-> SimulateDeviceConnection(b, id)])]

\* connectToDevice(deviceId) without a manager, called on its own: the
\* result of simulateDeviceConnection is returned.
SimulatedConnection(b, id) ==
  IF SimulateDeviceConnection(b, id)
  THEN [b EXCEPT !.connectedDevices = @ \cup {id},
                 !.connected = Some([id |-> id, result |-> TRUE])]
  ELSE [b EXCEPT !.connected = Some([id |-> id, result |-> FALSE])]

\* connectToDevice(deviceId) with a manager, after manager.connectToDevice
\* and the service discovery returned (ok) or one of them threw.
ResumeConnectToDevice(b, id, ok) ==
  [b EXCEPT !.connecting = @ \ {id},
            !.connectedDevices = IF ok THEN @ \cup {id} ELSE @,
            !.connected = Some([id |-> id, result |-> ok])]

\* The end of a failed pairNewBall, were the device recorded as connected
\* all the same.
PairFailsConnected(b, p) ==
  [b EXCEPT !.pairCalls[p] = IdlePair,
            !.connectedDevices = @ \cup {b.pairCalls[p].target},
            !.returned = Some([name |-> b.pairCalls[p].name,
                               result |-> FALSE, path |-> "failed",
                               id |-> b.pairCalls[p].target])]

\* The end of pairNewBall when connectToDevice returned false.
PairFails(b, p) ==
  [b EXCEPT !.pairCalls[p] = IdlePair,
            !.returned = Some([name |-> b.pairCalls[p].name,
                               result |-> FALSE, path |-> "failed",
                               id |-> b.pairCalls[p].target])]

\* pairNewBall from `const discoveredDevices = this.getDiscoveredDevices()`
\* to its next await that waits or its return.  Without a manager
\* connectToDevice is simulateDeviceConnection.
ContinuePair(b, p, t, U) ==
  IF b.discoveredDevices = <<>> THEN CreateSimulatedBall(b, p, t, U)
  ELSE LET c == [b EXCEPT !.pairCalls[p].target = b.discoveredDevices[1]]
       IN IF b.manager THEN [c EXCEPT !.pairCalls[p].pc = "connect"]
          ELSE IF SimulateDeviceConnection(c, b.discoveredDevices[1])
          THEN StoreDeviceBall(
                 [c EXCEPT !.connectedDevices = @ \cup {b.discoveredDevices[1]}],
                 p, t, U)
          ELSE PairFails(c, p)

\* pairNewBall after the manager's connectToDevice and service discovery.
ResumeConnect(b, p, ok, t, U) ==
  IF ok
  THEN StoreDeviceBall(
         [b EXCEPT !.connectedDevices = @ \cup {b.pairCalls[p].target}], p, t, U)
  ELSE PairFails(b, p)

\* A destroy() that leaves the tracked balls in place.
DestroyKeepsBalls(b) ==
  [StopScanning(b) EXCEPT !.connectedDevices = {}, !.discoveredDevices = <<>>,
                          !.adapterScanning = FALSE, !.destroyed = TRUE]

\* destroy(); manager.destroy() ends the adapter's scan.  The timers that
\* are still pending are marked as set before the shutdown.
Destroy(b) ==
  LET c == StopScanning(b)
  IN [c EXCEPT !.connectedDevices = {}, !.golfBalls = <<>>,
               !.discoveredDevices = <<>>,
               !.adapterScanning = FALSE,
               !.timers = [i \in DOMAIN @ |-> [@[i] EXCEPT !.stale = TRUE]],
               !.destroyed = TRUE, !.fallback = "none"]

\* initialize() up to its await: with a manager it awaits manager.state(),
\* without one it starts the simulation and returns.
BeginInitialize(b, t, U) ==
  IF b.manager THEN [b EXCEPT !.pendingInits = @ + 1, !.destroyed = FALSE]
  ELSE SimulateGolfBalls([b EXCEPT !.destroyed = FALSE], t, U)

\* initialize() after manager.state() returned PoweredOn, or returned
\* another state or threw.
ResumeInitialize(b, poweredOn, t, U) ==
  LET c == [b EXCEPT !.pendingInits = @ - 1]
  IN IF poweredOn THEN c ELSE SimulateGolfBalls(c, t, U)

\* ------------------------------------------------- the registry's actions
TimersFull(b) == Len(b.timers) >= MaxBleTimers
PairFresh(p) ==
  /\ ble.pairCalls[p].pc = "idle"
  /\ \A q \in BallSlots : q < p => ble.pairCalls[q].pc # "idle"
BallsWithin(b) == Len(b.golfBalls) <= MaxBalls
\* A call from outside the registry, counted against MaxBleOps.
Called(b) == [Quiet(b) EXCEPT !.ops = @ + 1]
CalledAs(b, name) == [Called(b) EXCEPT !.api = name]
MayCall == ble.ops < MaxBleOps

BleTick ==
  /\ now < MaxBleTime
  /\ now' = now + 1
  /\ ble' = Quiet(ble)

\* initialize()
BleInitialize(U) ==
  /\ MayCall
  /\ ~TimersFull(ble)
  /\ ble.pendingInits < MaxScanCalls
  /\ ble' = BeginInitialize(Called(ble), now, U)

\* initialize() after manager.state() returned or threw.
InitializeResumes(poweredOn, U) ==
  /\ ble.pendingInits > 0
  /\ poweredOn \/ ~TimersFull(ble)
  /\ ble' = ResumeInitialize(Quiet(ble), poweredOn, now, U)

\* startScanning(), called on its own.
StartScanning ==
  /\ MayCall
  /\ ~TimersFull(ble)
  /\ ble.pendingScans < MaxScanCalls
  /\ ble' = IF ble.isScanning THEN CalledAs(ble, "startScanning")
            ELSE LET c == BeginScan(CalledAs(ble, "startScanning"))
                 IN IF ble.manager THEN [c EXCEPT !.pendingScans = @ + 1]
                    ELSE c

ScanResumes(outcome) ==
  /\ ble.pendingScans > 0
  /\ ~TimersFull(ble)
  /\ ble' = ResumeScan([Quiet(ble) EXCEPT !.pendingScans = @ - 1], outcome)

StopScan ==
  /\ MayCall
  /\ ble' = StopScanning(CalledAs(ble, "stopScanning"))

\* pairNewBall(name) up to its first await that waits, the call being
\* that of slot p.
BeginPair(b, p, t, U) ==
  IF b.isScanning THEN ContinuePair(b, p, t, U)
  ELSE IF b.manager
  THEN [BeginScan(b) EXCEPT !.pairCalls[p].pc = "state"]
  ELSE [SetTimer(BeginScan(b), "settle", p)
          EXCEPT !.pairCalls[p].pc = "settle"]

PairNewBall(p, name, U) ==
  /\ MayCall
  /\ PairFresh(p)
  /\ Len(ble.timers) + 1 < MaxBleTimers
  /\ ble' = BeginPair([Called(ble) EXCEPT !.pairCalls[p] =
                         [IdlePair EXCEPT !.name = name]], p, now, U)
  /\ BallsWithin(ble')

\* BallsScreen.pairSelectedDevice with the device d selected in the list of
\* discovered devices: connectToDevice(d), and when it returns true
\* pairNewBall(name).  With a manager connectToDevice is awaited.
PairSelectedDevice(p, d, name, U) ==
  /\ MayCall
  /\ PairFresh(p)
  /\ Len(ble.timers) + 1 < MaxBleTimers
  /\ d \in Range(ble.discoveredDevices)
  /\ LET b == [Called(ble) EXCEPT !.pairCalls[p] =
                 [IdlePair EXCEPT !.name = name, !.selected = d]]
     IN ble' = IF b.manager
               THEN [b EXCEPT !.pairCalls[p].pc = "select"]
               ELSE IF SimulateDeviceConnection(b, d)
               THEN BeginPair(SimulatedConnection(b, d), p, now, U)
               ELSE [SimulatedConnection(b, d) EXCEPT !.pairCalls[p] = IdlePair]
  /\ BallsWithin(ble')

\* pairSelectedDevice after the manager's connectToDevice returned.
SelectedConnectResumes(p, ok, U) ==
  /\ ble.pairCalls[p].pc = "select"
  /\ Len(ble.timers) + 1 < MaxBleTimers
  /\ LET d == ble.pairCalls[p].selected
         b == [Quiet(ble) EXCEPT
                 !.connectedDevices = IF ok THEN @ \cup {d} ELSE @,
                 !.connected = Some([id |-> d, result |-> ok])]
     IN ble' = IF ok THEN BeginPair(b, p, now, U)
               ELSE [b EXCEPT !.pairCalls[p] = IdlePair]
  /\ BallsWithin(ble')

\* pairNewBall after its startScanning() returned: the settle delay starts.
PairScanResumes(p, outcome) ==
  /\ ble.pairCalls[p].pc = "state"
  /\ Len(ble.timers) + 1 < MaxBleTimers
  /\ ble' = [SetTimer(ResumeScan(Quiet(ble), outcome), "settle", p)
               EXCEPT !.pairCalls[p].pc = "settle"]

PairConnectResumes(p, ok, U) ==
  /\ ble.pairCalls[p].pc = "connect"
  /\ ble' = ResumeConnect(Quiet(ble), p, ok, now, U)
  /\ BallsWithin(ble')

\* A pending timer runs.
Fires(i, kind) ==
  /\ i \in DOMAIN ble.timers
  /\ ble.timers[i].kind = kind
  /\ CanFire(ble.timers, i)
Fired(b, i) ==
  [Quiet(b) EXCEPT !.timers = RemoveAt(@, i),
                   !.fired = Some([kind |-> b.timers[i].kind,
                                   stale |-> b.timers[i].stale])]

TelemetryFires(i, U) ==
  /\ Fires(i, "telemetry")
  /\ ble' = [UpdateSimulatedBallPositions(Fired(ble, i), now, U)
               EXCEPT !.timers = Append(@, ble.timers[i])]

DiscoveryFires(i) ==
  /\ Fires(i, "discovery")
  /\ ble' = SimulateDeviceDiscovery(Fired(ble, i))

ScanTimeoutFires(i) ==
  /\ Fires(i, "scan")
  /\ ble' = StopScanning(Fired(ble, i))

SettleFires(i, U) ==
  /\ Fires(i, "settle")
  /\ ble' = ContinuePair(Fired(ble, i), ble.timers[i].ref, now, U)
  /\ BallsWithin(ble')

\* The adapter's scan reports a device, or an error.
DeviceFound(d) ==
  /\ ble.adapterScanning
  /\ ble' = [Quiet(ble) EXCEPT !.discoveredDevices = AddDevice(@, d)]

ScanError ==
  /\ ble.adapterScanning
  /\ ble' = StopScanning(Quiet(ble))

\* connectToDevice(deviceId), called on its own: with a manager it awaits
\* manager.connectToDevice.
ConnectToDevice(id) ==
  /\ MayCall
  /\ id \notin ble.connecting
  /\ ble' = IF ble.manager
            THEN [CalledAs(ble, "connectToDevice") EXCEPT !.connecting = @ \cup {id}]
            ELSE SimulatedConnection(CalledAs(ble, "connectToDevice"), id)

ConnectResumes(id, ok) ==
  /\ id \in ble.connecting
  /\ ble' = ResumeConnectToDevice(Quiet(ble), id, ok)

\* removeBall(ballId)
RemoveBall(id, U) ==
  /\ MayCall
  /\ ble' = NotifyBallUpdates(
             [Called(ble) EXCEPT !.connectedDevices = @ \ {id},
                                 !.golfBalls = MapDelete(@, id),
                                 !.removed = Some(id)], U)

\* onBallUpdates(callback)
OnBallUpdates(cb) ==
  /\ Len(ble.ballUpdateCallbacks) < MaxListeners
  /\ ble' = Subscribed(Called(ble), cb)

\* The closure r returned by onBallUpdates is called outside a dispatch.
BallUnsubscribe(r) ==
  /\ r \in DOMAIN ble.closures
  /\ ble' = ClosureCalled(Called(ble), r)

BleDestroy ==
  /\ MayCall
  /\ ble' = Destroy(CalledAs(ble, "destroy"))

\* On the web initializeBLE never creates a manager.
InitBle == \E m \in BOOLEAN : (platformWeb => ~m) /\ ble = Constructed(m, 0)

\* ================================================ GameProvider's startup
\* initializeServices() and cleanup() of the coordinator.  `attempted` is
\* the set of subsystems whose startup was called.  The record also holds
\* the coordinator's state besides currentGame and error: courses,
\* playerLocation, golfBalls, and (measured) what its last
\* getDistanceMeasurements() call returned.
VARIABLES startup

Subsystems == {"persistence", "registry", "location"}
\* The callbacks initializeServices registers with the two services.
CoordinatorListener == 1

InitStartup ==
  startup = [stage |-> "idle", attempted |-> {}, slot |-> 0,
             isLoading |-> TRUE, courses |-> {}, cleanupStored |-> FALSE,
             unmounted |-> FALSE, playerLocation |-> None,
             golfBalls |-> <<>>, measured |-> None]

\* The listener registered with onLocationUpdate: setPlayerLocation of the
\* location's coordinates and time.
PlayerLocationOf(location) ==
  [latitude |-> location.latitude, longitude |-> location.longitude,
   timestamp |-> location.timestamp]

\* The coordinator's listeners run when a dispatch of the step invoked
\* them: setPlayerLocation(...) with the location emitted, setGolfBalls
\* with the balls of the registry.
HearsLocation ==
  startup' = IF CoordinatorListener \in Range(locInvoked')
             THEN [startup EXCEPT !.playerLocation =
                     Some(PlayerLocationOf(Get(currentLocation')))]
             ELSE startup
HearsBalls ==
  startup' = IF CoordinatorListener \in Range(ble'.invoked)
             THEN [startup EXCEPT !.golfBalls = ble'.golfBalls]
             ELSE startup

\* The catch and finally blocks of initializeServices.
StartupFailed(st) == [st EXCEPT !.stage = "failed", !.isLoading = FALSE]

\* initializeServices() up to `await dbService.initialize()`.
InitializeServices ==
  /\ startup.stage = "idle"
  /\ startup' = [startup EXCEPT !.stage = "persistence",
                                !.attempted = @ \cup {"persistence"},
                                !.isLoading = TRUE]
  /\ error' = None
  /\ UNCHANGED <<db, games, game_scores, currentGame, calls, opCount,
                 failCount>>
  /\ UNCHANGED <<now, locVars, ble>>

\* dbService.initialize() returns or throws; when it returns,
\* bleService.initialize() is called.
StartupDbReturns(outcome, U) ==
  /\ startup.stage = "persistence"
  /\ ~TimersFull(ble)
  /\ db' = DbAfterInit(outcome)
  /\ IF outcome = "ok"
     THEN /\ ble' = BeginInitialize(Quiet(ble), now, U)
          /\ startup' = [startup EXCEPT !.stage = "registry",
                                        !.attempted = @ \cup {"registry"}]
          /\ UNCHANGED error
     ELSE /\ ble' = Quiet(ble)
          /\ startup' = StartupFailed(startup)
          /\ error' = Some(InitError)
  /\ UNCHANGED <<games, game_scores, currentGame, calls, opCount, failCount>>
  /\ UNCHANGED <<now, locVars>>

\* bleService.initialize() returns (it never throws), and
\* locationService.startLocationTracking() is called.
StartupRegistryReturns(poweredOn, U, s) ==
  /\ startup.stage = "registry"
  /\ IF ble.manager
     THEN /\ poweredOn \/ ~TimersFull(ble)
          /\ ble' = ResumeInitialize(Quiet(ble), poweredOn, now, U)
     ELSE /\ poweredOn
          /\ ble' = Quiet(ble)
  /\ StartLocationTracking(s)
  /\ startup' = [startup EXCEPT !.stage = "location", !.slot = s,
                                !.attempted = @ \cup {"location"}]
  /\ UNCHANGED <<now, gameVars>>

\* startLocationTracking's requestPermissions() returns: on the web the
\* call is over, a refusal makes it throw, otherwise it goes on.
StartupPermission(granted, U) ==
  /\ startup.stage = "location"
  /\ PermissionResult(startup.slot, granted, U)
  /\ startup' = IF platformWeb THEN [startup EXCEPT !.stage = "load"]
                ELSE IF granted THEN startup ELSE StartupFailed(startup)
  /\ error' = IF ~platformWeb /\ ~granted THEN Some(InitError) ELSE error
  /\ UNCHANGED <<db, games, game_scores, currentGame, calls, opCount,
                 failCount>>
  /\ UNCHANGED <<now, ble>>

\* startLocationTracking's watchPositionAsync returns or throws; either
\* way the call returns.
StartupWatch(ok, U) ==
  /\ startup.stage = "location"
  /\ WatchResult(startup.slot, ok, U)
  /\ startup' = [startup EXCEPT !.stage = "load"]
  /\ UNCHANGED <<now, gameVars, ble>>

\* getCourses() and getActiveGame() return (each returns nothing when its
\* query fails); the courses and the current game are stored and the two
\* listeners are registered.
StartupLoaded(coursesOk, gameOk) ==
  /\ startup.stage = "load"
  /\ currentGame' =
       LET g == IF gameOk /\ db THEN SelectActiveGame(games) ELSE None
       IN IF IsSome(g)
          THEN Some(MakeGame(Get(g), SelectScores(game_scores, Get(g).id)))
          ELSE None
  /\ OnLocationUpdate(CoordinatorListener)
  /\ ble' = Subscribed(Quiet(ble), CoordinatorListener)
  /\ startup' = [startup EXCEPT !.stage = "ready", !.isLoading = FALSE,
                                !.courses = IF coursesOk /\ db THEN CourseIds
                                            ELSE {},
                                !.cleanupStored = TRUE]
  /\ UNCHANGED <<db, games, game_scores, error, calls, opCount, failCount>>
  /\ UNCHANGED now

\* cleanup(): the stored unsubscribe functions when there are any, then
\* locationService.stopLocationTracking() and bleService.destroy().
Cleanup ==
  /\ startup.stage # "idle"
  /\ ~startup.unmounted
  /\ locationCallbacks' =
       IF startup.cleanupStored
       THEN Unsubscribe(locationCallbacks, CoordinatorListener)
       ELSE locationCallbacks
  /\ locWatchers' = IF IsSome(locationSubscription)
                    THEN locWatchers \ {Get(locationSubscription)}
                    ELSE locWatchers
  /\ locationSubscription' = None
  /\ locTimers' = IF IsSome(simulationInterval)
                  THEN Without(locTimers, Get(simulationInterval))
                  ELSE locTimers
  /\ simulationInterval' = None
  /\ locStopped' = TRUE
  /\ locInvoked' = <<>>
  /\ UNCHANGED <<platformWeb, currentLocation, locCalls, locRetired>>
  /\ ble' = Destroy(
       IF startup.cleanupStored
       THEN ClosureCalled(Quiet(ble), Len(ble.closures))
       ELSE Quiet(ble))
  /\ startup' = [startup EXCEPT !.unmounted = TRUE]
  /\ UNCHANGED <<now, gameVars>>

\* ============================== GameProvider.getDistanceMeasurements
\* A measurement keeps its two labels and what it measures between: the
\* player's coordinates and `of`, the ball or the hole whose coordinates
\* are the other end.  The distance is calculateDistance of the two pairs
\* of coordinates and is left out, as the balls' coordinates are.
HoleLabel(n) ==
  CASE n = 1 -> "Hole 1" [] n = 2 -> "Hole 2" [] n = 3 -> "Hole 3"
    [] OTHER -> "Hole n"

\* The holes getCourses() returns for a loaded course: those seeded,
\* numbered from 1 (18 of them in the code).
HolesOf(courseId) == Holes

Measurement(playerLocation, label, of) ==
  [from |-> [latitude |-> playerLocation.latitude,
             longitude |-> playerLocation.longitude, label |-> "You"],
   to |-> [label |-> label, of |-> of]]

\* The current hole, were it always the first hole.
CurrentHoleNumberIsFirst(game) == 1
\* The current hole, were the number of scores taken for it.
CurrentHoleNumberIsScoreCount(game) == Len(game.scores)
\* currentGame.scores.length + 1
CurrentHoleNumber(game) == Len(game.scores) + 1

\* The second half of getDistanceMeasurements: the entry of the current
\* hole, if there is one.
HoleMeasurements(playerLocation, game, courses) ==
  IF IsSome(game) /\ courses # {} /\ Get(game).courseId \in courses
  THEN LET n == CurrentHoleNumber(Get(game))
       IN IF n \in HolesOf(Get(game).courseId)
          THEN <<Measurement(playerLocation, HoleLabel(n), <<"hole", n>>)>>
          ELSE <<>>
  ELSE <<>>

\* The first half, were the balls visited last to first.
BallMeasurementsReversed(playerLocation, golfBalls) ==
  [i \in DOMAIN golfBalls |->
     Measurement(playerLocation, golfBalls[Len(golfBalls) + 1 - i].name,
                 golfBalls[Len(golfBalls) + 1 - i].id)]
\* The first half: golfBalls.forEach(ball => measurements.push(...)).
BallMeasurements(playerLocation, golfBalls) ==
  [i \in DOMAIN golfBalls |->
     Measurement(playerLocation, golfBalls[i].name, golfBalls[i].id)]

\* The check of the player location, were it left out.
NoMeasurementsCheckDropped(playerLocation) == FALSE
\* `if (!playerLocation) return measurements`
NoMeasurements(playerLocation) == ~IsSome(playerLocation)

\* getDistanceMeasurements() over the coordinator's state.
GetDistanceMeasurements(playerLocation, golfBalls, game, courses) ==
  IF NoMeasurements(playerLocation) THEN <<>>
  ELSE LET you == IF IsSome(playerLocation) THEN Get(playerLocation)
                  ELSE [latitude |-> 0, longitude |-> 0, timestamp |-> 0]
       IN BallMeasurements(you, golfBalls)
            \o HoleMeasurements(you, game, courses)

\* The presentation layer calls getDistanceMeasurements().
Measure ==
  /\ startup' = [startup EXCEPT !.measured =
        Some(GetDistanceMeasurements(startup.playerLocation,
                                     startup.golfBalls, currentGame,
                                     startup.courses))]
  /\ UNCHANGED <<now, gameVars, locVars, ble>>

\* The coordinator states getDistanceMeasurements() is applied to: a
\* player location or none, the balls of a snapshot the registry
\* delivered, the courses loaded or none, and no round or a round of a
\* seeded course with scores for some of its holes.
SnapshotBalls ==
  {SimulatedBall(1, 0), SimulatedBall(2, 0)} \cup
  {[id |-> SimulatedDevices[1], name |-> n,
    deviceId |-> Some(SimulatedDevices[1]), lastSeen |-> 0] : n \in BallNames}
Snapshots ==
  {q \in UNION {[1..k -> SnapshotBalls] : k \in 0..MaxSnapshot} :
     \A i, j \in DOMAIN q : q[i].id = q[j].id => i = j}
RoundScores(S) ==
  [k \in {<<0, h>> : h \in S} |-> [par |-> 4, strokes |-> 1, putts |-> -1]]
RoundRows(courseId, S) ==
  UpdateTotals(InsertGame(<<>>, 0, courseId, 0), 0,
               SumTotals(RoundScores(S), 0))

InitMeasure ==
  /\ now = 0
  /\ InitLocation
  /\ InitBle
  /\ db = TRUE
  /\ error = None
  /\ calls = [s \in Slots |-> IdleCall]
  /\ opCount = 0
  /\ failCount = 0
  /\ \/ /\ games = <<>>
        /\ game_scores = <<>>
        /\ currentGame = None
     \/ \E c \in CourseIds, S \in SUBSET Holes :
          /\ games = RoundRows(c, S)
          /\ game_scores = RoundScores(S)
          /\ currentGame =
               Some(MakeGame(Get(SelectActiveGame(RoundRows(c, S))),
                             SelectScores(RoundScores(S), 0)))
  /\ \E l \in {None} \cup {Some(PlayerLocationOf(
                  [latitude |-> c, longitude |-> c, timestamp |-> 0])) :
                  c \in SensorCoords},
        q \in Snapshots, cs \in {{}, CourseIds} :
       startup = [stage |-> "ready", attempted |-> Subsystems, slot |-> 0,
                  isLoading |-> FALSE, courses |-> cs,
                  cleanupStored |-> TRUE, unmounted |-> FALSE,
                  playerLocation |-> l, golfBalls |-> q, measured |-> None]


\* ======================================================= specifications
vars == <<now, gameVars, locVars, ble, startup>>

InitGame ==
  /\ db = FALSE
  /\ games = <<>>
  /\ game_scores = <<>>
  /\ currentGame = None
  /\ error = None
  /\ calls = [s \in Slots |-> IdleCall]
  /\ opCount = 0
  /\ failCount = 0

Init ==
  /\ now = 0
  /\ InitGame
  /\ InitLocation
  /\ InitBle
  /\ InitStartup

\* The round store and the coordinator's round operations.
NextGame ==
  \/ Tick /\ UNCHANGED <<gameVars, locVars, ble, startup>>
  \/ (\E o \in DbInitOutcomes : DbInitialize(o)) /\ UNCHANGED <<now, locVars, ble, startup>>
  \/ (\E s \in Slots, c \in CourseIds : StartNewGame(s, c))
       /\ UNCHANGED <<now, locVars, ble, startup>>
  \/ (\E s \in Slots, ok \in BOOLEAN : StartInsert(s, ok))
       /\ UNCHANGED <<now, locVars, ble, startup>>
  \/ (\E s \in Slots, ok \in BOOLEAN : ReadGame(s, ok))
       /\ UNCHANGED <<now, locVars, ble, startup>>
  \/ (\E s \in Slots, ok \in BOOLEAN : ReadScores(s, ok))
       /\ UNCHANGED <<now, locVars, ble, startup>>
  \/ (\E s \in Slots : EndCurrentGame(s)) /\ UNCHANGED <<now, locVars, ble, startup>>
  \/ (\E s \in Slots, ok \in BOOLEAN : EndClose(s, ok))
       /\ UNCHANGED <<now, locVars, ble, startup>>
  \/ (\E s \in Slots, h \in Holes, i \in ScoreInputs :
         SaveScore(s, h, i.par, i.strokes, i.putts))
       /\ UNCHANGED <<now, locVars, ble, startup>>
  \/ (\E s \in Slots, ok \in BOOLEAN : SaveUpsert(s, ok))
       /\ UNCHANGED <<now, locVars, ble, startup>>
  \/ (\E s \in Slots, ok \in BOOLEAN : SaveSum(s, ok))
       /\ UNCHANGED <<now, locVars, ble, startup>>
  \/ (\E s \in Slots, ok \in BOOLEAN : SaveUpdate(s, ok))
       /\ UNCHANGED <<now, locVars, ble, startup>>

SpecGame == Init /\ [][NextGame]_vars

\* Rounds started and scores recorded with any arguments, the ones the
\* scorecard screen refuses included.
NextScoreArguments ==
  \/ (\E o \in DbInitOutcomes : DbInitialize(o)) /\ UNCHANGED <<now, locVars, ble, startup>>
  \/ (\E s \in Slots, c \in CourseIds : StartNewGame(s, c))
       /\ UNCHANGED <<now, locVars, ble, startup>>
  \/ (\E s \in Slots, ok \in BOOLEAN : StartInsert(s, ok))
       /\ UNCHANGED <<now, locVars, ble, startup>>
  \/ (\E s \in Slots, ok \in BOOLEAN : ReadGame(s, ok))
       /\ UNCHANGED <<now, locVars, ble, startup>>
  \/ (\E s \in Slots, ok \in BOOLEAN : ReadScores(s, ok))
       /\ UNCHANGED <<now, locVars, ble, startup>>
  \/ (\E s \in Slots, h \in Holes, i \in ScoreInputs \cup UncheckedScoreInputs :
         SaveScore(s, h, i.par, i.strokes, i.putts))
       /\ UNCHANGED <<now, locVars, ble, startup>>
  \/ (\E s \in Slots, ok \in BOOLEAN : SaveUpsert(s, ok))
       /\ UNCHANGED <<now, locVars, ble, startup>>
  \/ (\E s \in Slots, ok \in BOOLEAN : SaveSum(s, ok))
       /\ UNCHANGED <<now, locVars, ble, startup>>
  \/ (\E s \in Slots, ok \in BOOLEAN : SaveUpdate(s, ok))
       /\ UNCHANGED <<now, locVars, ble, startup>>

SpecScoreArguments == Init /\ [][NextScoreArguments]_vars

\* The location tracker.  Only a registered callback is ever invoked, so the
\* self-unsubscribing callbacks U are drawn from the registered ones.
Registered == SUBSET Range(locationCallbacks)

NextLocation ==
  \/ LocTimePasses /\ UNCHANGED <<gameVars, ble, startup>>
  \/ (\E s \in LocSlots : StartLocationTracking(s))
       /\ UNCHANGED <<now, gameVars, ble, startup>>
  \/ (\E s \in LocSlots, g \in BOOLEAN, U \in Registered :
         PermissionResult(s, g, U)) /\ UNCHANGED <<now, gameVars, ble, startup>>
  \/ (\E s \in LocSlots, ok \in BOOLEAN, U \in Registered :
         WatchResult(s, ok, U)) /\ UNCHANGED <<now, gameVars, ble, startup>>
  \/ (\E h \in locWatchers, c \in SensorCoords, U \in Registered :
         SensorCallback(h, c, U)) /\ UNCHANGED <<now, gameVars, ble, startup>>
  \/ (\E h \in DOMAIN locTimers, j \in Jitters, U \in Registered :
         SimulationTick(h, j, U)) /\ UNCHANGED <<now, gameVars, ble, startup>>
  \/ StopLocationTracking /\ UNCHANGED <<now, gameVars, ble, startup>>
  \/ (\E cb \in Callbacks : OnLocationUpdate(cb))
       /\ UNCHANGED <<now, gameVars, ble, startup>>
  \/ (\E cb \in Range(locationCallbacks) : LocationUnsubscribe(cb))
       /\ UNCHANGED <<now, gameVars, ble, startup>>

SpecLocation == Init /\ [][NextLocation]_vars

\* The ball registry.
BallRegistered == SUBSET Range(ble.ballUpdateCallbacks)

NextBle ==
  \/ BleTick /\ UNCHANGED <<gameVars, locVars, startup>>
  \/ (\E U \in BallRegistered : BleInitialize(U))
       /\ UNCHANGED <<now, gameVars, locVars, startup>>
  \/ (\E on \in BOOLEAN, U \in BallRegistered : InitializeResumes(on, U))
       /\ UNCHANGED <<now, gameVars, locVars, startup>>
  \/ StartScanning /\ UNCHANGED <<now, gameVars, locVars, startup>>
  \/ (\E o \in ScanOutcomes : ScanResumes(o))
       /\ UNCHANGED <<now, gameVars, locVars, startup>>
  \/ StopScan /\ UNCHANGED <<now, gameVars, locVars, startup>>
  \/ (\E p \in BallSlots, n \in BallNames, U \in BallRegistered :
         PairNewBall(p, n, U)) /\ UNCHANGED <<now, gameVars, locVars, startup>>
  \/ (\E p \in BallSlots, o \in ScanOutcomes : PairScanResumes(p, o))
       /\ UNCHANGED <<now, gameVars, locVars, startup>>
  \/ (\E p \in BallSlots, ok \in BOOLEAN, U \in BallRegistered :
         PairConnectResumes(p, ok, U)) /\ UNCHANGED <<now, gameVars, locVars, startup>>
  \/ (\E i \in DOMAIN ble.timers, U \in BallRegistered : TelemetryFires(i, U))
       /\ UNCHANGED <<now, gameVars, locVars, startup>>
  \/ (\E i \in DOMAIN ble.timers : DiscoveryFires(i))
       /\ UNCHANGED <<now, gameVars, locVars, startup>>
  \/ (\E i \in DOMAIN ble.timers : ScanTimeoutFires(i))
       /\ UNCHANGED <<now, gameVars, locVars, startup>>
  \/ (\E i \in DOMAIN ble.timers, U \in BallRegistered : SettleFires(i, U))
       /\ UNCHANGED <<now, gameVars, locVars, startup>>
  \/ (\E d \in RealDevices : DeviceFound(d))
       /\ UNCHANGED <<now, gameVars, locVars, startup>>
  \/ ScanError /\ UNCHANGED <<now, gameVars, locVars, startup>>
  \/ (\E id \in Ids(ble.golfBalls) \cup {UnknownId}, U \in BallRegistered :
         RemoveBall(id, U)) /\ UNCHANGED <<now, gameVars, locVars, startup>>
  \/ (\E cb \in Callbacks :
         /\ MayCall
         /\ Len(ble.ballUpdateCallbacks) < MaxBallListeners
         /\ OnBallUpdates(cb))
       /\ UNCHANGED <<now, gameVars, locVars, startup>>
  \/ (\E r \in DOMAIN ble.closures :
         /\ MayCall
         /\ ble.closures[r] \in Range(ble.ballUpdateCallbacks)
         /\ BallUnsubscribe(r))
       /\ UNCHANGED <<now, gameVars, locVars, startup>>
  \/ BleDestroy /\ UNCHANGED <<now, gameVars, locVars, startup>>

SpecBle == Init /\ [][NextBle]_vars

\* The registry's scans and connectToDevice called on its own.
ConnectIds == RealDevices \cup {SimulatedDevices[1], UnknownId}

NextConnect ==
  \/ BleTick /\ UNCHANGED <<gameVars, locVars, startup>>
  \/ StartScanning /\ UNCHANGED <<now, gameVars, locVars, startup>>
  \/ (\E o \in ScanOutcomes : ScanResumes(o))
       /\ UNCHANGED <<now, gameVars, locVars, startup>>
  \/ StopScan /\ UNCHANGED <<now, gameVars, locVars, startup>>
  \/ (\E i \in DOMAIN ble.timers : TelemetryFires(i, {}))
       /\ UNCHANGED <<now, gameVars, locVars, startup>>
  \/ (\E i \in DOMAIN ble.timers : DiscoveryFires(i))
       /\ UNCHANGED <<now, gameVars, locVars, startup>>
  \/ (\E i \in DOMAIN ble.timers : ScanTimeoutFires(i))
       /\ UNCHANGED <<now, gameVars, locVars, startup>>
  \/ (\E d \in RealDevices : DeviceFound(d))
       /\ UNCHANGED <<now, gameVars, locVars, startup>>
  \/ ScanError /\ UNCHANGED <<now, gameVars, locVars, startup>>
  \/ (\E id \in ConnectIds : ConnectToDevice(id))
       /\ UNCHANGED <<now, gameVars, locVars, startup>>
  \/ (\E id \in ConnectIds, ok \in BOOLEAN : ConnectResumes(id, ok))
       /\ UNCHANGED <<now, gameVars, locVars, startup>>
  \/ BleDestroy /\ UNCHANGED <<now, gameVars, locVars, startup>>

SpecConnect == Init /\ [][NextConnect]_vars

\* The balls screen pairs a device selected among the discovered ones.
NextSelect ==
  \/ BleTick /\ UNCHANGED <<gameVars, locVars, startup>>
  \/ StartScanning /\ UNCHANGED <<now, gameVars, locVars, startup>>
  \/ (\E o \in ScanOutcomes : ScanResumes(o))
       /\ UNCHANGED <<now, gameVars, locVars, startup>>
  \/ StopScan /\ UNCHANGED <<now, gameVars, locVars, startup>>
  \/ (\E p \in BallSlots, d \in RealDevices \cup Range(SimulatedDevices),
         n \in BallNames : PairSelectedDevice(p, d, n, {}))
       /\ UNCHANGED <<now, gameVars, locVars, startup>>
  \/ (\E p \in BallSlots, ok \in BOOLEAN : SelectedConnectResumes(p, ok, {}))
       /\ UNCHANGED <<now, gameVars, locVars, startup>>
  \/ (\E p \in BallSlots, o \in ScanOutcomes : PairScanResumes(p, o))
       /\ UNCHANGED <<now, gameVars, locVars, startup>>
  \/ (\E p \in BallSlots, ok \in BOOLEAN : PairConnectResumes(p, ok, {}))
       /\ UNCHANGED <<now, gameVars, locVars, startup>>
  \/ (\E i \in DOMAIN ble.timers : TelemetryFires(i, {}))
       /\ UNCHANGED <<now, gameVars, locVars, startup>>
  \/ (\E i \in DOMAIN ble.timers : DiscoveryFires(i))
       /\ UNCHANGED <<now, gameVars, locVars, startup>>
  \/ (\E i \in DOMAIN ble.timers : ScanTimeoutFires(i))
       /\ UNCHANGED <<now, gameVars, locVars, startup>>
  \/ (\E i \in DOMAIN ble.timers : SettleFires(i, {}))
       /\ UNCHANGED <<now, gameVars, locVars, startup>>
  \/ (\E d \in RealDevices : DeviceFound(d))
       /\ UNCHANGED <<now, gameVars, locVars, startup>>
  \/ ScanError /\ UNCHANGED <<now, gameVars, locVars, startup>>

SpecSelect == Init /\ [][NextSelect]_vars

\* The registry's listeners and the closures onBallUpdates returned, each
\* of which may be called at any time and any number of times; no callback
\* unsubscribes inside a dispatch here.
NextClosures ==
  \/ BleTick /\ UNCHANGED <<gameVars, locVars, startup>>
  \/ (\E cb \in Callbacks : ble.ops < MaxClosureCalls /\ OnBallUpdates(cb))
       /\ UNCHANGED <<now, gameVars, locVars, startup>>
  \/ (\E r \in DOMAIN ble.closures :
         ble.ops < MaxClosureCalls /\ BallUnsubscribe(r))
       /\ UNCHANGED <<now, gameVars, locVars, startup>>
  \/ (\E id \in Ids(ble.golfBalls) \cup {UnknownId} : RemoveBall(id, {}))
       /\ UNCHANGED <<now, gameVars, locVars, startup>>
  \/ (\E i \in DOMAIN ble.timers : TelemetryFires(i, {}))
       /\ UNCHANGED <<now, gameVars, locVars, startup>>

SpecClosures == Init /\ [][NextClosures]_vars

\* The coordinator's startup and shutdown, with the services' timers.
NextInit ==
  \/ InitializeServices
  \/ (\E o \in DbInitOutcomes, U \in BallRegistered : StartupDbReturns(o, U))
  \/ (\E on \in BOOLEAN, U \in BallRegistered, s \in LocSlots :
         StartupRegistryReturns(on, U, s))
  \/ (\E g \in BOOLEAN, U \in Registered : StartupPermission(g, U))
  \/ (\E ok \in BOOLEAN, U \in Registered : StartupWatch(ok, U))
  \/ (\E c \in BOOLEAN, g \in BOOLEAN : StartupLoaded(c, g))
  \/ Cleanup
  \/ (\E i \in DOMAIN ble.timers, U \in BallRegistered : TelemetryFires(i, U))
       /\ HearsBalls /\ UNCHANGED <<now, gameVars, locVars>>
  \/ (\E h \in locWatchers, c \in SensorCoords, U \in Registered :
         SensorCallback(h, c, U))
       /\ HearsLocation /\ UNCHANGED <<now, gameVars, ble>>
  \/ (\E h \in DOMAIN locTimers, j \in Jitters, U \in Registered :
         SimulationTick(h, j, U))
       /\ HearsLocation /\ UNCHANGED <<now, gameVars, ble>>
  \/ LocTimePasses /\ UNCHANGED <<gameVars, ble, startup>>

SpecInit == Init /\ [][NextInit]_vars

\* The two listener registries: registration, unsubscription and the
\* dispatches of the sensor, of the tracker's start (one call at a time),
\* of removeBall and of the telemetry timer.
NextListeners ==
  \/ (\E s \in {1} : StartLocationTracking(s))
       /\ ble' = Quiet(ble) /\ UNCHANGED <<now, gameVars, startup>>
  \/ (\E s \in {1}, g \in BOOLEAN, U \in Registered :
         PermissionResult(s, g, U))
       /\ ble' = Quiet(ble) /\ UNCHANGED <<now, gameVars, startup>>
  \/ (\E s \in {1}, ok \in BOOLEAN, U \in Registered :
         WatchResult(s, ok, U))
       /\ ble' = Quiet(ble) /\ UNCHANGED <<now, gameVars, startup>>
  \/ (\E h \in locWatchers, c \in SensorCoords, U \in Registered :
         SensorCallback(h, c, U))
       /\ ble' = Quiet(ble) /\ UNCHANGED <<now, gameVars, startup>>
  \/ (\E cb \in Callbacks : OnLocationUpdate(cb))
       /\ ble' = Quiet(ble) /\ UNCHANGED <<now, gameVars, startup>>
  \/ (\E cb \in Range(locationCallbacks) : LocationUnsubscribe(cb))
       /\ ble' = Quiet(ble) /\ UNCHANGED <<now, gameVars, startup>>
  \/ (\E cb \in Callbacks : MayCall /\ OnBallUpdates(cb))
       /\ LocQuiet /\ UNCHANGED <<now, gameVars, startup>>
  \/ (\E r \in DOMAIN ble.closures :
         /\ MayCall
         /\ ble.closures[r] \in Range(ble.ballUpdateCallbacks)
         /\ BallUnsubscribe(r))
       /\ LocQuiet /\ UNCHANGED <<now, gameVars, startup>>
  \/ (\E id \in Ids(ble.golfBalls) \cup {UnknownId}, U \in BallRegistered :
         RemoveBall(id, U))
       /\ LocQuiet /\ UNCHANGED <<now, gameVars, startup>>
  \/ (\E i \in DOMAIN ble.timers, U \in BallRegistered : TelemetryFires(i, U))
       /\ LocQuiet /\ UNCHANGED <<now, gameVars, startup>>

SpecListeners == Init /\ [][NextListeners]_vars

\* getDistanceMeasurements() applied to the coordinator's states.
NextMeasure == Measure

SpecMeasure == InitMeasure /\ [][NextMeasure]_vars

\* ================================================================ claims
\* C1: at most one Round is active in persistence in every reachable state,
\* whatever startRound, recordScore and endRound calls were made.
C1_AtMostOneActiveRound == Cardinality(ActiveIds(games)) <= 1

\* C2: when the coordinator's startup has finished, with or without a
\* failure, the startup of each of the three subsystems was run.
C2_EverySubsystemStarted ==
  startup.stage \in {"ready", "failed"} => startup.attempted = Subsystems

\* C3: a pair(name) call that found a discovered device and connected to it
\* leaves exactly one more ball in the registry than before, the new ball
\* has the given name and the device's id, and every ball that was there
\* is still there under its name.
C3_PairAddsExactlyOneBall ==
  [][(IsSome(ble'.returned) /\ Get(ble'.returned).path = "device") =>
       LET r == Get(ble'.returned)
       IN /\ Len(ble'.golfBalls) = Len(ble.golfBalls) + 1
          /\ \E j \in DOMAIN ble'.golfBalls :
                ble'.golfBalls[j].id = r.id /\ ble'.golfBalls[j].name = r.name
          /\ \A i \in DOMAIN ble.golfBalls : \E j \in DOMAIN ble'.golfBalls :
                /\ ble'.golfBalls[j].id = ble.golfBalls[i].id
                /\ ble'.golfBalls[j].name = ble.golfBalls[i].name]_vars

\* C4: a dispatch pass invokes every listener that is registered before
\* and after it, also when another listener unsubscribes itself during the
\* pass; in the tracker and in the registry.
C4_NoListenerSkipped ==
  [][/\ locInvoked' # <<>> =>
          \A c \in Range(locationCallbacks) \cap Range(locationCallbacks') :
             c \in Range(locInvoked')
     /\ ble'.invoked # <<>> =>
          \A c \in Range(ble.ballUpdateCallbacks)
                   \cap Range(ble'.ballUpdateCallbacks) :
             c \in Range(ble'.invoked)]_vars

\* C5: a listener that unsubscribed itself from inside its own callback is
\* not invoked by any later dispatch (until it is registered again); in
\* the tracker and in the registry.
C5_RetiredNeverInvoked ==
  [][/\ \A c \in locRetired : c \notin Range(locInvoked')
     /\ \A c \in ble.retired : c \notin Range(ble'.invoked)]_vars

\* C5, witness: a dispatch of the registry has invoked a listener while
\* another one had unsubscribed itself in an earlier dispatch, and a
\* listener of the tracker has unsubscribed itself too.
C5_Witness ==
  /\ ble.retired # {}
  /\ ble.invoked # <<>>
  /\ Range(ble.invoked) \cap ble.retired = {}
  /\ locRetired # {}

\* C6: after destroy() returned (and until initialize() is called again) a
\* timer set before it that still runs notifies no listener and changes
\* neither the tracked balls nor the discovered devices.
C6_NoTimerEffectAfterDestroy ==
  [][(ble.destroyed /\ IsSome(ble'.fired) /\ Get(ble'.fired).stale) =>
       /\ ble'.invoked = <<>>
       /\ ble'.golfBalls = ble.golfBalls
       /\ ble'.discoveredDevices = ble.discoveredDevices]_vars

\* C7: between stop() and the next start() of the tracker no listener is
\* invoked and current() does not change.
C7_SilentAfterStop ==
  [][(locStopped /\ locStopped') =>
       (currentLocation' = currentLocation /\ locInvoked' = <<>>)]_vars

\* C8: after stopScanning() returned (and until a scan is started again)
\* the adapter's scan is not running and no device is added to the
\* discovered devices.
C8_NoScanAfterStop ==
  [][ble'.scanStopped =>
       /\ ~ble'.adapterScanning
       /\ ble.scanStopped =>
            Range(ble'.discoveredDevices) \subseteq Range(ble.discoveredDevices)
    ]_vars

\* C9: while the registry is scanning, the scan's auto-stop is pending: the
\* scan timer that scanTimeout holds, or a startScanning() call that has
\* yet to set it.
C9_ScanHasAutoStop ==
  ble.isScanning =>
    \/ /\ IsSome(ble.scanTimeout)
       /\ \E i \in DOMAIN ble.timers :
            ble.timers[i].kind = "scan"
            /\ ble.timers[i].ref = Get(ble.scanTimeout)
    \/ ble.pendingScans > 0
    \/ \E p \in BallSlots : ble.pairCalls[p].pc = "state"

\* C10: after a scan was started without an adapter, with an adapter that
\* is not powered on, or with an adapter whose scan failed to start, the
\* simulated discovery is pending or has filled the discovered devices.
C10_FallbackDiscovers ==
  ble.fallback # "none" =>
    \/ \E i \in DOMAIN ble.timers : ble.timers[i].kind = "discovery"
    \/ Range(SimulatedDevices) \subseteq Range(ble.discoveredDevices)

\* C11: when the upsert of a recordScore call has been stored, the round
\* holds exactly one score for that hole, with the par, strokes and putts
\* of the call; it holds as many scores as before when the hole had one
\* already, and the coordinator's round never lists a hole twice.
C11_UpsertReplaces ==
  [][\A s \in Slots :
       (calls[s].op = "save" /\ calls[s].pc = "upsert" /\ calls'[s].pc = "sum")
       => LET key == <<calls[s].gameId, calls[s].hole>>
          IN /\ key \in DOMAIN game_scores'
             /\ game_scores'[key].par = calls[s].par
             /\ game_scores'[key].strokes = calls[s].strokes
             /\ game_scores'[key].putts = calls[s].putts
             /\ key \in DOMAIN game_scores =>
                  DOMAIN game_scores' = DOMAIN game_scores
             /\ IsSome(currentGame') =>
                  \A i, j \in DOMAIN Get(currentGame').scores :
                     Get(currentGame').scores[i].holeNumber
                       = Get(currentGame').scores[j].holeNumber => i = j]_vars

\* C12: when a recordScore call completes, the stored totals of its round
\* are the sums of strokes and of par over the round's stored scores, and
\* the totals of the coordinator's refreshed round are the sums over the
\* scores that round lists.
C12_TotalsAreSums ==
  [][\A s \in Slots :
       (calls[s].op = "save" /\ calls'[s].pc = "idle")
       => /\ calls[s].gameId \in DOMAIN games' =>
               LET t == SumTotals(game_scores', calls[s].gameId)
               IN /\ games'[calls[s].gameId].total_strokes = t.total_strokes
                  /\ games'[calls[s].gameId].total_par = t.total_par
          /\ IsSome(currentGame') =>
               LET g == Get(currentGame')
                   I == DOMAIN g.scores
               IN /\ g.totalStrokes = SumOver(I, [i \in I |-> g.scores[i].strokes])
                  /\ g.totalPar = SumOver(I, [i \in I |-> g.scores[i].par])]_vars

\* C13: a pair(name) call that finds no discovered device leaves exactly
\* one more ball in the registry than before; the new ball has the given
\* name, an id that no ball of the registry had, and no device id.
C13_SimulatedPairAddsFreshBall ==
  [][(IsSome(ble'.returned) /\ Get(ble'.returned).path = "simulated") =>
       LET r == Get(ble'.returned)
       IN /\ Len(ble'.golfBalls) = Len(ble.golfBalls) + 1
          /\ r.id \notin Ids(ble.golfBalls)
          /\ \E j \in DOMAIN ble'.golfBalls :
                /\ ble'.golfBalls[j].id = r.id
                /\ ble'.golfBalls[j].name = r.name
                /\ ble'.golfBalls[j].deviceId = None]_vars

\* C14: a pair(name) call returns false only when it tried to connect to
\* a device through the adapter and that attempt failed; a call that ends
\* without an adapter, without a discovered device or with a successful
\* connection returns true.
C14_FalseOnlyOnFailedConnect ==
  [][IsSome(ble'.returned) =>
       LET r == Get(ble'.returned)
       IN /\ ~r.result =>
               /\ ble.manager
               /\ \E p \in BallSlots :
                     /\ ble.pairCalls[p].pc = "connect"
                     /\ ble.pairCalls[p].target = r.id
                     /\ ble'.pairCalls[p].pc = "idle"
               /\ r.id \notin ble'.connectedDevices \ ble.connectedDevices
          /\ (~ble.manager \/ r.path \in {"simulated", "device"}) => r.result]_vars

\* C14, witness: a pair call has returned false on a device with an
\* adapter, and the registry holds a ball that another way of pairing
\* stored.
C14_Witness ==
  /\ IsSome(ble.returned)
  /\ ~Get(ble.returned).result
  /\ ble.manager
  /\ ble.golfBalls # <<>>

\* C15: removeBall(id) with an id that no tracked ball has leaves the
\* tracked balls as they were and invokes every registered ball listener
\* exactly once, in registration order.
C15_RemoveUnknownNotifiesAll ==
  [][(IsSome(ble'.removed) /\ Get(ble'.removed) \notin Ids(ble.golfBalls)) =>
       /\ ble'.golfBalls = ble.golfBalls
       /\ ble'.invoked = ble.ballUpdateCallbacks]_vars

\* A measurement of the distance to a hole.
IsHoleEntry(m) == m.to.of[1] = "hole"
\* A round is held, its course is among the loaded courses, and the
\* course has a hole numbered one more than the round has scores.
CurrentHoleKnown ==
  /\ IsSome(currentGame)
  /\ Get(currentGame).courseId \in startup.courses
  /\ Len(Get(currentGame).scores) + 1 \in HolesOf(Get(currentGame).courseId)

\* C16: getDistanceMeasurements() returns the empty list whenever the
\* coordinator holds no player location, whatever balls and round it holds.
C16_EmptyWithoutLocation ==
  (IsSome(startup.measured) /\ ~IsSome(startup.playerLocation)) =>
     Get(startup.measured) = <<>>

\* C16, witness: measured without a player location while the coordinator
\* holds two balls and a round whose current hole is known.
C16_Witness ==
  /\ IsSome(startup.measured)
  /\ ~IsSome(startup.playerLocation)
  /\ Len(startup.golfBalls) = 2
  /\ CurrentHoleKnown

\* C17: the list getDistanceMeasurements() returns has an entry for the
\* current hole if and only if a round is held, its course is among the
\* loaded courses and the course has a hole numbered scores + 1.
C17_HoleEntryIffKnown ==
  IsSome(startup.measured) =>
    ((\E i \in DOMAIN Get(startup.measured) :
         IsHoleEntry(Get(startup.measured)[i])) <=> CurrentHoleKnown)

\* C17, amended: the same when the coordinator holds a player location
\* (without one the list is empty: C16), and the entry is then that of
\* hole scores + 1, once.
C17_HoleEntryIffKnownAndLocated ==
  (IsSome(startup.measured) /\ IsSome(startup.playerLocation)) =>
    LET ms == Get(startup.measured)
        hs == {i \in DOMAIN ms : IsHoleEntry(ms[i])}
    IN /\ hs # {} <=> CurrentHoleKnown
       /\ Cardinality(hs) <= 1
       /\ \A i \in hs :
            /\ ms[i].to.of[2] = Len(Get(currentGame).scores) + 1
            /\ ms[i].to.label = HoleLabel(Len(Get(currentGame).scores) + 1)

\* C17, witness: measured with a player location, and the list has an
\* entry for hole 2 of a round with one score.
C17_Witness ==
  /\ IsSome(startup.measured)
  /\ IsSome(startup.playerLocation)
  /\ IsSome(currentGame)
  /\ Len(Get(currentGame).scores) = 1
  /\ \E i \in DOMAIN Get(startup.measured) :
        IsHoleEntry(Get(startup.measured)[i])

\* C18: with a player location the list has one entry for each ball the
\* coordinator holds, in the order of the balls and labelled with the
\* ball's name, and nothing after them but the entry of the current hole.
C18_BallsFirstHoleLast ==
  (IsSome(startup.measured) /\ IsSome(startup.playerLocation)) =>
    LET ms == Get(startup.measured)
        n == Len(startup.golfBalls)
    IN /\ Len(ms) \in {n, n + 1}
       /\ \A i \in 1..n :
            /\ ms[i].to.of = startup.golfBalls[i].id
            /\ ms[i].to.label = startup.golfBalls[i].name
            /\ ms[i].from.label = "You"
       /\ Len(ms) = n + 1 => IsHoleEntry(ms[n + 1])

\* C18, witness: measured with a player location, two balls and a known
\* current hole: three entries.
C18_Witness ==
  /\ IsSome(startup.measured)
  /\ IsSome(startup.playerLocation)
  /\ Len(startup.golfBalls) = 2
  /\ Len(Get(startup.measured)) = 3

\* C19: once cleanup() has run and initializeServices() has finished, in
\* either order, the location tracker is not running (no sensor
\* subscription, no simulation timer) and the coordinator's listener is
\* registered neither with the tracker nor with the registry.
C19_ShutdownHolds ==
  (startup.unmounted /\ startup.stage \in {"ready", "failed"}) =>
     /\ locationSubscription = None
     /\ simulationInterval = None
     /\ locWatchers = {}
     /\ DOMAIN locTimers = {}
     /\ CoordinatorListener \notin Range(locationCallbacks)
     /\ CoordinatorListener \notin Range(ble.ballUpdateCallbacks)

\* C20: when an endRound call made with a current round completes, that
\* round is closed in persistence (is_active = 0 and an end time) and the
\* coordinator holds no current round; an endRound call is only carried
\* out when the coordinator holds a round.
C20_EndClosesRound ==
  [][\A s \in Slots :
       /\ (calls[s].op = "end" /\ calls'[s].pc = "idle") =>
            /\ calls[s].gameId \in DOMAIN games'
            /\ games'[calls[s].gameId].is_active = 0
            /\ games'[calls[s].gameId].end_time # -1
            /\ currentGame' = None
       /\ (calls[s].op # "end" /\ calls'[s].op = "end") =>
            (IsSome(currentGame) /\ calls'[s].gameId = Get(currentGame).id)
    ]_vars

\* C21: a recordScore call made while the coordinator holds no round
\* stores no score, changes no row of the rounds, leaves the coordinator
\* without a round and leaves the error state as it was.
C21_NoRoundNoOp ==
  [][\A s \in Slots :
       (calls'[s].op = "noRound" /\ calls'[s] # calls[s]) =>
          /\ ~IsSome(currentGame)
          /\ game_scores' = game_scores
          /\ games' = games
          /\ currentGame' = None
          /\ error' = error
          /\ calls'[s].pc = "idle"]_vars

\* C21, witness: such a call has returned while the database is open and
\* holds a round, and no error is set.
C21_Witness ==
  /\ \E s \in Slots : calls[s].op = "noRound"
  /\ db
  /\ games # <<>>
  /\ error = None

\* What startScanning(), stopScanning() and the timers act on.
ScanState(b) ==
  [isScanning |-> b.isScanning, scanTimeout |-> b.scanTimeout,
   discoveredDevices |-> b.discoveredDevices, timers |-> b.timers,
   adapterScanning |-> b.adapterScanning, pendingScans |-> b.pendingScans,
   connectedDevices |-> b.connectedDevices, golfBalls |-> b.golfBalls]

\* C22: startScanning() called while the registry is scanning changes
\* neither the discovered devices nor the timers nor the scanning flag;
\* called while it is not scanning it leaves the registry scanning with no
\* discovered device.
C22_StartScanNoOpOrFresh ==
  [][ble'.api = "startScanning" =>
       IF ble.isScanning
       THEN ScanState(ble') = ScanState(ble)
       ELSE ble'.isScanning /\ ble'.discoveredDevices = <<>>]_vars

\* C22, witness: startScanning() has returned with devices discovered (it
\* was called during a scan that had found them).
C22_Witness ==
  /\ ble.api = "startScanning"
  /\ ble.discoveredDevices # <<>>
  /\ ble.isScanning

\* C23: stopScanning() called while the registry is not scanning (so also
\* a second time in a row) changes nothing; called while it is scanning it
\* leaves the registry not scanning, with the timer scanTimeout held no
\* longer pending, scanTimeout empty and the adapter's scan stopped, and
\* with the devices, the balls and the other timers as they were.
C23_StopScanIdempotent ==
  [][ble'.api = "stopScanning" =>
       IF ~ble.isScanning
       THEN ScanState(ble') = ScanState(ble)
       ELSE /\ ~ble'.isScanning
            /\ ble'.scanTimeout = None
            /\ IsSome(ble.scanTimeout) =>
                 \A i \in DOMAIN ble'.timers :
                    ~(ble'.timers[i].kind = "scan"
                      /\ ble'.timers[i].ref = Get(ble.scanTimeout))
            /\ ble.manager => ~ble'.adapterScanning
            /\ SelectSeq(ble'.timers, LAMBDA x : x.kind # "scan")
                 = SelectSeq(ble.timers, LAMBDA x : x.kind # "scan")
            /\ ble'.discoveredDevices = ble.discoveredDevices
            /\ ble'.golfBalls = ble.golfBalls
            /\ ble'.connectedDevices = ble.connectedDevices]_vars

\* C23, witness: stopScanning() has returned as the second call made to a
\* registry with an adapter whose scan had reported a device.
C23_Witness ==
  /\ ble.api = "stopScanning"
  /\ ble.manager
  /\ ble.discoveredDevices # <<>>
  /\ ble.ops = 2
  /\ ~ble.adapterScanning

\* C24: without a manager, connectToDevice(deviceId) called on its own
\* returns true exactly when deviceId is among the discovered devices at the
\* call; it then adds deviceId to the connected devices, and otherwise
\* leaves the connected devices as they were.
C24_SimulatedConnectIffDiscovered ==
  [][(ble'.api = "connectToDevice" /\ ~ble.manager) =>
       /\ IsSome(ble'.connected)
       /\ LET r == Get(ble'.connected)
          IN /\ r.result <=> r.id \in Range(ble.discoveredDevices)
             /\ ble'.connectedDevices =
                  IF r.result THEN ble.connectedDevices \cup {r.id}
                  ELSE ble.connectedDevices]_vars

\* C24, witness: without a manager connectToDevice has returned true for a
\* discovered device, which is now recorded as connected.
C24_Witness ==
  /\ ble.api = "connectToDevice"
  /\ ~ble.manager
  /\ IsSome(ble.connected)
  /\ Get(ble.connected).result
  /\ Get(ble.connected).id \in ble.connectedDevices
  /\ Get(ble.connected).id \in Range(ble.discoveredDevices)

\* C25: in the state destroy() leaves, the registry is not scanning and its
\* discovered devices, its connected devices and its balls are all empty.
C25_DestroyEmpties ==
  ble.api = "destroy" =>
    /\ ~ble.isScanning
    /\ ble.discoveredDevices = <<>>
    /\ ble.connectedDevices = {}
    /\ ble.golfBalls = <<>>

\* C25, witness: destroy() has returned as the first call made to a registry
\* without a manager, which held the simulated balls since its construction.
C25_Witness ==
  /\ ble.api = "destroy"
  /\ ~ble.manager
  /\ ble.ops = 1
  /\ ble.golfBalls = <<>>
  /\ ble.timers # <<>>

\* C26: a call of an unsubscribe closure returned by onBallUpdates removes
\* no registration of another callback and at most one registration of its
\* own callback, and a closure that was called before removes nothing when
\* it is called again (its registration is gone: what is left of its
\* callback belongs to other closures).
C26_ClosureRemovesOwnOnly ==
  [][\A r \in DOMAIN ble.closures :
       ble'.unsubscribed = Some(r) =>
         LET cb == ble.closures[r]
         IN /\ \A c \in Callbacks \ {cb} :
                 Count(ble'.ballUpdateCallbacks, c)
                   = Count(ble.ballUpdateCallbacks, c)
            /\ Count(ble'.ballUpdateCallbacks, cb)
                 >= Count(ble.ballUpdateCallbacks, cb) - 1
            /\ r \in ble.spent =>
                 ble'.ballUpdateCallbacks = ble.ballUpdateCallbacks]_vars

\* C27: whenever a write statement issued for the coordinator fails (the
\* INSERT of startNewGame, the INSERT OR REPLACE of saveScore, the UPDATE
\* of updateGameTotals, the UPDATE of endGame), the coordinator's error is
\* set when the step is over.
C27_FailedWriteSetsError ==
  [][\A s \in Slots :
       (/\ failCount' > failCount
        /\ calls[s].pc \in {"insert", "upsert", "update", "close"}
        /\ calls'[s] # calls[s]) => IsSome(error')]_vars

\* C28: every location the tracker hands to its listeners has a timestamp
\* strictly greater than that of the location it replaces as the player's
\* location.
C28_TimestampStrictlyIncreases ==
  [][(locInvoked' # <<>> /\ IsSome(currentLocation)) =>
       Get(currentLocation').timestamp > Get(currentLocation).timestamp]_vars

\* C29: the clock never goes back, no ball is ever stamped later than the
\* clock, and a ball that is in the registry before and after a step has a
\* lastSeen that is not smaller afterwards; so for every id each new
\* lastSeen is at least the one before, also when the id is reused by a
\* later pair.
C29_LastSeenNeverDecreases ==
  [][/\ now' >= now
     /\ \A i \in DOMAIN ble'.golfBalls :
          /\ ble'.golfBalls[i].lastSeen <= now'
          /\ \A j \in DOMAIN ble.golfBalls :
               ble.golfBalls[j].id = ble'.golfBalls[i].id =>
                 ble'.golfBalls[i].lastSeen >= ble.golfBalls[j].lastSeen]_vars

\* C29, witness: the telemetry timer has just stamped a ball that was in the
\* registry since an earlier instant.
C29_Witness ==
  /\ IsSome(ble.fired)
  /\ Get(ble.fired).kind = "telemetry"
  /\ ~Get(ble.fired).stale
  /\ now = 1
  /\ \E i \in DOMAIN ble.golfBalls :
        ble.golfBalls[i].id = <<"sim-ball", 1>> /\ ble.golfBalls[i].lastSeen = 1

\* C30: the registry is constructed without balls, and a step puts a ball
\* id into the registry that was not there before only when it is the
\* return of a pairNewBall call with the result true for that id.
C30_BallsOnlyFromPair ==
  /\ ble.golfBalls = <<>>
  /\ [][\A id \in Ids(ble'.golfBalls) \ Ids(ble.golfBalls) :
          /\ IsSome(ble'.returned)
          /\ Get(ble'.returned).result
          /\ Get(ble'.returned).id = id]_vars

\* C31: while the registry has not been destroyed and tracks a ball, a
\* telemetry timer is pending, so that the ball's lastSeen is refreshed and
\* the listeners are notified when the telemetry period has passed.
C31_TelemetryWhileTracking ==
  (ble.golfBalls # <<>> /\ ~ble.destroyed) =>
    \E i \in DOMAIN ble.timers :
       ble.timers[i].kind = "telemetry" /\ ~ble.timers[i].stale

\* C32: on the web, where every location is simulated, a location emitted
\* by a simulation timer differs from the location emitted before it by at
\* most 0.00005 degree (5 units) in latitude and in longitude.
C32_JitterFromPrevious ==
  [][(/\ platformWeb
      /\ IsSome(currentLocation)
      /\ \E h \in DOMAIN locTimers :
            /\ locTimers[h] = 0
            /\ h \in DOMAIN locTimers'
            /\ locTimers'[h] = SimulationPeriod) =>
       LET old == Get(currentLocation)
           new == Get(currentLocation')
       IN /\ new.latitude - old.latitude \in -5..5
          /\ new.longitude - old.longitude \in -5..5]_vars

\* C33: every row of game_scores has strokes >= 1.
C33_StrokesAtLeastOne ==
  \A k \in DOMAIN game_scores : game_scores[k].strokes >= 1

\* C34: whenever no coordinator call is in flight, the coordinator's
\* current game is absent exactly when no row of games is active, and is
\* otherwise the Game that getActiveGame() would build now: the active
\* round with its stored scores and totals.
C34_RoundAgreesWithStore ==
  NoCallInFlight =>
    currentGame =
      IF SelectActiveGame(games) = None THEN None
      ELSE Some(MakeGame(Get(SelectActiveGame(games)),
                         SelectScores(game_scores,
                                      Get(SelectActiveGame(games)).id)))

\* C35: once initializeServices has completed (and the provider is still
\* mounted), the coordinator's golfBalls are the registry's balls and its
\* playerLocation is the tracker's current location.
C35_SnapshotsAgree ==
  (startup.stage = "ready" /\ ~startup.unmounted) =>
    /\ startup.golfBalls = ble.golfBalls
    /\ startup.playerLocation =
         IF IsSome(currentLocation)
         THEN Some(PlayerLocationOf(Get(currentLocation))) ELSE None

\* C36: when the settle delay of a pairNewBall call that was waiting while
\* destroy() ran is over, and initialize() was not called since, the call
\* puts no ball into the registry: the balls and the discovered devices
\* are still empty afterwards.
C36_NoBallAfterDestroy ==
  [][(/\ ble.destroyed
      /\ IsSome(ble'.fired)
      /\ Get(ble'.fired).kind = "settle"
      /\ Get(ble'.fired).stale) =>
       /\ ble'.golfBalls = <<>>
       /\ ble'.discoveredDevices = <<>>]_vars

\* The hole numbers of the scores the coordinator's round holds.
ScoredHoles == {Get(currentGame).scores[i].holeNumber :
                  i \in DOMAIN Get(currentGame).scores}

\* C37: an entry for a hole in the list getDistanceMeasurements() returned
\* is never that of a hole the round holds a score for.
C37_HoleEntryUnscored ==
  (IsSome(startup.measured) /\ IsSome(currentGame)) =>
    \A i \in DOMAIN Get(startup.measured) :
       IsHoleEntry(Get(startup.measured)[i]) =>
         Get(startup.measured)[i].to.of[2] \notin ScoredHoles

\* C37, amended: the same for a round whose scores are those of its first
\* holes, 1 to the number of scores (recorded without leaving a hole out).
C37_HoleEntryUnscoredInOrder ==
  (/\ IsSome(startup.measured)
   /\ IsSome(currentGame)
   /\ ScoredHoles = 1..Len(Get(currentGame).scores)) =>
    \A i \in DOMAIN Get(startup.measured) :
       IsHoleEntry(Get(startup.measured)[i]) =>
         Get(startup.measured)[i].to.of[2] \notin ScoredHoles

\* C37, witness: measured for a round that holds a score for hole 1 only,
\* and the list has the entry of hole 2.
C37_Witness ==
  /\ IsSome(startup.measured)
  /\ IsSome(currentGame)
  /\ ScoredHoles = {1}
  /\ \E i \in DOMAIN Get(startup.measured) :
        /\ IsHoleEntry(Get(startup.measured)[i])
        /\ Get(startup.measured)[i].to.of[2] = 2

\* C38: when the pairNewBall call made by pairSelectedDevice for a selected
\* device returns true, the ball it reports has the selected device's id
\* and is in the registry under that id.
C38_BallOfSelectedDevice ==
  [][\A p \in BallSlots :
       (/\ ble.pairCalls[p].selected # UnknownId
        /\ ble'.pairCalls[p].pc = "idle"
        /\ IsSome(ble'.returned)
        /\ Get(ble'.returned).result) =>
          /\ Get(ble'.returned).id = ble.pairCalls[p].selected
          /\ ble.pairCalls[p].selected \in Ids(ble'.golfBalls)]_vars

\* C39: no step of a pairNewBall call other than its return with the result
\* true changes the tracked balls or the connected devices or invokes a
\* listener; so when the call returns false, it has left the balls and the
\* connection records as they were and has notified no listener.
C39_FailedPairChangesNothing ==
  [][(/\ ble'.pairCalls # ble.pairCalls \/ IsSome(ble'.returned)
      /\ ~(IsSome(ble'.returned) /\ Get(ble'.returned).result)) =>
       /\ ble'.golfBalls = ble.golfBalls
       /\ ble'.connectedDevices = ble.connectedDevices
       /\ ble'.invoked = <<>>]_vars

\* C39, witness: a pair call has returned false while the registry tracks
\* balls and has a listener registered, which was not invoked.
C39_Witness ==
  /\ IsSome(ble.returned)
  /\ ~Get(ble.returned).result
  /\ ble.golfBalls # <<>>
  /\ ble.ballUpdateCallbacks # <<>>
  /\ ble.invoked = <<>>

\* C40: at most one telemetry timer of the registry is pending at any time.
C40_OneTelemetryTimer ==
  Cardinality({i \in DOMAIN ble.timers : ble.timers[i].kind = "telemetry"}) <= 1

====
